---------------------------- MODULE Spec2Model ----------------------------
(***************************************************************************)
(* A model of the prompt-enrichment extension: the chunker and the lexical *)
(* index (repoIndexer.ts, second RepoIndexer class of the file), the       *)
(* action inference engine (agentMode.ts) and the approve/reject state     *)
(* machine that stages its proposals (copilotIntegration.ts).              *)
(*                                                                         *)
(* Text is modelled as sequences of one-character strings, so that the     *)
(* regular expressions, substring tests, splits and joins of the source    *)
(* are computed rather than assumed.                                       *)
(***************************************************************************)
EXTENDS Integers, Sequences, FiniteSets, TLC

(***************************************************************************)
(* Characters and strings                                                  *)
(***************************************************************************)
AlphaL == <<"a","b","c","d","e","f","g","h","i","j","k","l","m","n","o","p","q","r","s","t","u","v","w","x","y","z">>

AlphaU == <<"A","B","C","D","E","F","G","H","I","J","K","L","M","N","O","P","Q","R","S","T","U","V","W","X","Y","Z">>

DigitCh == {"0","1","2","3","4","5","6","7","8","9"}

Range(f) == {f[k] : k \in DOMAIN f}

\* the backquote character, written by name: the lexer does not take it in a string
BackQuote == "backquote"

\* \w of a JavaScript regular expression
WordCh == Range(AlphaL) \cup Range(AlphaU) \cup DigitCh \cup {"_"}

\* \s of a JavaScript regular expression (the members that can be typed)
SpaceCh == {" ", "\t", "\n"}

ToLowerCh(c) ==
    IF \E k \in 1..26 : AlphaU[k] = c
    THEN AlphaL[CHOOSE k \in 1..26 : AlphaU[k] = c]
    ELSE c

ToUpperCh(c) ==
    IF \E k \in 1..26 : AlphaL[k] = c
    THEN AlphaU[CHOOSE k \in 1..26 : AlphaL[k] = c]
    ELSE c

\* String.prototype.toLowerCase
ToLowerCase(s) == [k \in 1..Len(s) |-> ToLowerCh(s[k])]

\* String.prototype.includes
Includes(s, sub) ==
    \E i \in 1..(Len(s) - Len(sub) + 1) : SubSeq(s, i, i + Len(sub) - 1) = sub

\* Array.prototype.includes
SeqIncludes(xs, x) == \E k \in 1..Len(xs) : xs[k] = x

\* the pieces of s[lo..hi] between its separators; a character is a separator
\* when its membership in chars is isSeparator. The range is split in halves,
\* and the piece that ends the first half is joined to the piece that starts
\* the second.
RECURSIVE SplitRange(_, _, _, _, _)
SplitRange(s, lo, hi, chars, isSeparator) ==
    IF lo > hi THEN << <<>> >>
    ELSE IF lo = hi
         THEN IF (s[lo] \in chars) = isSeparator THEN << <<>>, <<>> >> ELSE << <<s[lo]>> >>
    ELSE LET mid == (lo + hi) \div 2
             a == SplitRange(s, lo, mid, chars, isSeparator)
             b == SplitRange(s, mid + 1, hi, chars, isSeparator)
         IN  SubSeq(a, 1, Len(a) - 1) \o <<a[Len(a)] \o b[1]>> \o Tail(b)

\* String.prototype.split on a one-character separator
Split(s, sep) == SplitRange(s, 1, Len(s), {sep}, TRUE)

NonEmpty(x) == Len(x) > 0

\* Array.prototype.join
RECURSIVE JoinWith(_, _)
JoinWith(parts, sep) ==
    IF Len(parts) = 0 THEN <<>>
    ELSE IF Len(parts) = 1 THEN parts[1]
    ELSE LET half == Len(parts) \div 2
         IN  JoinWith(SubSeq(parts, 1, half), sep) \o <<sep>>
             \o JoinWith(SubSeq(parts, half + 1, Len(parts)), sep)

(***************************************************************************)
(* Regular expressions: a backtracking matcher over a pattern tree.  Rx    *)
(* returns the ways a pattern matches at a position, as a list in the      *)
(* order a backtracking engine tries them (greedy first); RxSearch is      *)
(* String.prototype.match without the g flag: the leftmost position that   *)
(* matches, with the first way of that list.  A match carries the span of  *)
(* the pattern's one capture group.                                        *)
(***************************************************************************)
RSet(S) == [t |-> "set", s |-> S]

RCat(rs) == [t |-> "cat", rs |-> rs]

RAlt(rs) == [t |-> "alt", rs |-> rs]

RStar(r) == [t |-> "star", r |-> r]

ROpt(r) == [t |-> "opt", r |-> r]

RCap(r) == [t |-> "cap", r |-> r]

RPlus(r) == RCat(<<r, RStar(r)>>)

\* a literal under the i flag
RLit(str) == RCat([k \in 1..Len(str) |-> RSet({ToLowerCh(str[k]), ToUpperCh(str[k])})])

RECURSIVE Rx(_, _, _, _)
RECURSIVE RxCat(_, _, _, _, _)
RECURSIVE RxCatBind(_, _, _, _, _)
RECURSIVE RxAlt(_, _, _, _, _)
RECURSIVE RxStarBind(_, _, _, _, _)
RxCat(rs, k, s, i, c) ==
    IF k > Len(rs) THEN <<[e |-> i, c |-> c]>>
    ELSE RxCatBind(Rx(rs[k], s, i, c), 1, rs, k + 1, s)

RxCatBind(xs, j, rs, k, s) ==
    IF j > Len(xs) THEN <<>>
    ELSE RxCat(rs, k, s, xs[j].e, xs[j].c) \o RxCatBind(xs, j + 1, rs, k, s)

RxAlt(rs, k, s, i, c) ==
    IF k > Len(rs) THEN <<>>
    ELSE Rx(rs[k], s, i, c) \o RxAlt(rs, k + 1, s, i, c)

RxStarBind(xs, j, r, s, i) ==
    IF j > Len(xs) THEN <<>>
    ELSE (IF xs[j].e > i THEN Rx(r, s, xs[j].e, xs[j].c) ELSE <<>>)
         \o RxStarBind(xs, j + 1, r, s, i)

Rx(r, s, i, c) ==
    CASE r.t = "set" ->
            IF i <= Len(s) /\ s[i] \in r.s THEN <<[e |-> i + 1, c |-> c]>> ELSE <<>>
      [] r.t = "cat" -> RxCat(r.rs, 1, s, i, c)
      [] r.t = "alt" -> RxAlt(r.rs, 1, s, i, c)
      [] r.t = "star" -> RxStarBind(Rx(r.r, s, i, c), 1, r, s, i) \o <<[e |-> i, c |-> c]>>
      [] r.t = "opt" -> Rx(r.r, s, i, c) \o <<[e |-> i, c |-> c]>>
      [] r.t = "cap" ->
            LET xs == Rx(r.r, s, i, c)
            IN  [j \in 1..Len(xs) |-> [e |-> xs[j].e, c |-> <<i, xs[j].e>>]]

NoMatch == [found |-> FALSE, g1 |-> <<>>]

\* the leftmost position of lo..hi at which the pattern matches: the range is
\* split in halves and the first half is searched first
RECURSIVE RxSearchFrom(_, _, _, _)
RxSearchFrom(r, s, lo, hi) ==
    IF lo = hi
    THEN LET xs == Rx(r, s, lo, <<1, 1>>)
         IN  IF Len(xs) > 0
             THEN [found |-> TRUE, g1 |-> SubSeq(s, xs[1].c[1], xs[1].c[2] - 1)]
             ELSE NoMatch
    ELSE LET first == RxSearchFrom(r, s, lo, (lo + hi) \div 2)
         IN  IF first.found THEN first ELSE RxSearchFrom(r, s, (lo + hi) \div 2 + 1, hi)

\* prompt.match(pattern): found, and the text of capture group 1
RxSearch(r, s) == RxSearchFrom(r, s, 1, Len(s) + 1)

(***************************************************************************)
(* agentMode.ts: the directory catalog                                     *)
(***************************************************************************)
S_src == <<"s","r","c">>

S_test == <<"t","e","s","t">>

S_tests == <<"t","e","s","t","s">>

S_features == <<"f","e","a","t","u","r","e","s">>

S_feature == <<"f","e","a","t","u","r","e">>

S_spec == <<"s","p","e","c">>

S_ts == <<"t","s">>

S_tsx == <<"t","s","x">>

S_components == <<"c","o","m","p","o","n","e","n","t","s">>

\* the names shouldIgnore lists
IgnoredNames ==
    { <<"n","o","d","e","_","m","o","d","u","l","e","s">>, <<".","g","i","t">>,
      <<"d","i","s","t">>, <<"b","u","i","l","d">>, <<"o","u","t">>,
      <<".","v","s","c","o","d","e">>, <<"c","o","v","e","r","a","g","e">>,
      <<".","n","e","x","t">> }

shouldIgnore(name) == name \in IgnoredNames \/ (Len(name) > 0 /\ name[1] = ".")

\* the depth scanDir starts with
MaxScanDepth == 4

PathSegments(p) == SelectSeq(Split(p, "/"), NonEmpty)

\* scanFolderStructure over a workspace whose directories are listed in the order
\* readdirSync walks them (depth first, a directory before its children): a
\* directory is catalogued when no name on its path is ignored and it lies at most
\* MaxScanDepth levels below the root.
ScanKeeps(dir) ==
    /\ Len(PathSegments(dir)) <= MaxScanDepth
    /\ \A k \in 1..Len(PathSegments(dir)) : ~shouldIgnore(PathSegments(dir)[k])

scanFolderStructure(listing) == SelectSeq(listing, ScanKeeps)

(***************************************************************************)
(* agentMode.ts: best-match folder resolution                              *)
(***************************************************************************)
TrailingJunk == {BackQuote, "\"", "'", "/"}

\* replace(/[`"'\/]+$/g, '')
RECURSIVE StripTrailing(_, _)
StripTrailing(s, junk) ==
    IF Len(s) > 0 /\ s[Len(s)] \in junk
    THEN StripTrailing(SubSeq(s, 1, Len(s) - 1), junk)
    ELSE s

NormalizeHint(folderHint) == StripTrailing(ToLowerCase(folderHint), TrailingJunk)

\* hintParts.every(part => pathLower.includes(part))
ContainsAllParts(p, hintParts) ==
    \A k \in 1..Len(hintParts) : Includes(ToLowerCase(p), hintParts[k])

\* the reducer (a, b) => a.length > b.length ? a : b
LongerWrong(a, b) == IF Len(a) < Len(b) THEN a ELSE b

Longer(a, b) == IF Len(a) > Len(b) THEN a ELSE b

\* matches.reduce(Longer) on a non-empty list
RECURSIVE ReduceLonger(_, _, _)
ReduceLonger(xs, k, acc) ==
    IF k > Len(xs) THEN acc ELSE ReduceLonger(xs, k + 1, Longer(acc, xs[k]))

RECURSIVE FirstIncluding(_, _, _, _)
FirstIncluding(paths, k, hint, otherwise) ==
    IF k > Len(paths) THEN otherwise
    ELSE IF Includes(ToLowerCase(paths[k]), hint) THEN paths[k]
    ELSE FirstIncluding(paths, k + 1, hint, otherwise)

findBestMatchingFolderPartialFirst(paths, folderHint) ==
    LET hint == NormalizeHint(folderHint)
    IN  IF SeqIncludes(paths, hint) THEN hint
        ELSE FirstIncluding(paths, 1, hint, hint)

findBestMatchingFolder(paths, folderHint) ==
    LET hint == NormalizeHint(folderHint)
        hintParts == PathSegments(hint)
        matches == SelectSeq(paths, LAMBDA p : ContainsAllParts(p, hintParts))
    IN  IF SeqIncludes(paths, hint) THEN hint
        ELSE IF Len(matches) > 0 THEN ReduceLonger(matches, 2, matches[1])
        ELSE FirstIncluding(paths, 1, hint, hint)

(***************************************************************************)
(* agentMode.ts: folder inferred from the file extension                   *)
(***************************************************************************)
typeToFolderHints(ext) ==
    CASE ext = S_feature -> <<S_features, S_test>>
      [] ext = S_spec -> <<S_test, S_tests>>
      [] ext = S_test -> <<S_test, S_tests>>
      [] ext = S_tsx -> <<S_components, S_src>>
      [] ext = S_ts -> <<S_src>>
      [] OTHER -> <<S_src>>

FileExt(fileName) == ToLowerCase(Split(fileName, ".")[Len(Split(fileName, "."))])

RECURSIVE InferFrom(_, _, _, _)
InferFrom(paths, hints, k, ext) ==
    IF k > Len(hints) THEN S_src
    ELSE LET matchingPaths ==
                 SelectSeq(paths, LAMBDA p : Includes(ToLowerCase(p), ToLowerCase(hints[k])))
             withFeatures ==
                 SelectSeq(matchingPaths, LAMBDA p : Includes(ToLowerCase(p), S_features))
         IN  IF Len(matchingPaths) > 0
             THEN IF ext = S_feature /\ Len(withFeatures) > 0
                  THEN withFeatures[1]
                  ELSE ReduceLonger(matchingPaths, 2, matchingPaths[1])
             ELSE InferFrom(paths, hints, k + 1, ext)

inferFolderFromStructure(paths, fileName) ==
    InferFrom(paths, typeToFolderHints(FileExt(fileName)), 1, FileExt(fileName))

(***************************************************************************)
(* agentMode.ts: detectActions                                             *)
(***************************************************************************)
RWord == RSet(WordCh)

RSpace == RSet(SpaceCh)

\* \w+\.[\w]+
RFileName == RCat(<<RPlus(RWord), RSet({"."}), RPlus(RWord)>>)

RLocationTag == RLit(<<"*","*","L","o","c","a","t","i","o","n",":","*","*">>)

\* /\*\*Location:\*\*\s*([\w\/\-\.]+)/i
LocationPattern ==
    RCat(<<RLocationTag, RStar(RSpace), RCap(RPlus(RSet(WordCh \cup {"/", "-", "."})))>>)

QuoteCh == {BackQuote, "\"", "'"}

filePatterns ==
    << \* /Create file:\s*\*\*(\w+\.[\w]+)\*\*/i
       RCat(<<RLit(<<"C","r","e","a","t","e"," ","f","i","l","e",":">>), RStar(RSpace),
              RLit(<<"*","*">>), RCap(RFileName), RLit(<<"*","*">>)>>),
       \* /file\s+named?\s+[`"'\*]?(\w+\.[\w]+)[`"'\*]?/i
       RCat(<<RLit(<<"f","i","l","e">>), RPlus(RSpace), RLit(<<"n","a","m","e">>),
              ROpt(RLit(<<"d">>)), RPlus(RSpace), ROpt(RSet(QuoteCh \cup {"*"})),
              RCap(RFileName), ROpt(RSet(QuoteCh \cup {"*"}))>>),
       \* /[`"'](\w+\.[\w]+)[`"']/i
       RCat(<<RSet(QuoteCh), RCap(RFileName), RSet(QuoteCh)>>),
       \* /(\w+\.feature)/i
       RCap(RCat(<<RPlus(RWord), RLit(<<".","f","e","a","t","u","r","e">>)>>)),
       \* /(\w+\.test\.ts)/i
       RCap(RCat(<<RPlus(RWord), RLit(<<".","t","e","s","t",".","t","s">>)>>)),
       \* /(\w+\.spec\.ts)/i
       RCap(RCat(<<RPlus(RWord), RLit(<<".","s","p","e","c",".","t","s">>)>>)) >>

\* (?:in|to|at)\s+(?:the\s+)?
RPreposition ==
    RCat(<<RAlt(<<RLit(<<"i","n">>), RLit(<<"t","o">>), RLit(<<"a","t">>)>>), RPlus(RSpace),
           ROpt(RCat(<<RLit(<<"t","h","e">>), RPlus(RSpace)>>))>>)

LetterCh == Range(AlphaL) \cup Range(AlphaU)

folderPatterns ==
    << \* /\*\*Location:\*\*\s*([\w\/\-]+)/i
       RCat(<<RLocationTag, RStar(RSpace), RCap(RPlus(RSet(WordCh \cup {"/", "-"})))>>),
       \* /(?:in|to|at)\s+(?:the\s+)?[`"']?([\w\/\-]+(?:\/[\w\-]+)*)[`"']?\s*(?:\/|directory|folder)/i
       RCat(<<RPreposition, ROpt(RSet(QuoteCh)),
              RCap(RCat(<<RPlus(RSet(WordCh \cup {"/", "-"})),
                          RStar(RCat(<<RSet({"/"}), RPlus(RSet(WordCh \cup {"-"}))>>))>>)),
              ROpt(RSet(QuoteCh)), RStar(RSpace),
              RAlt(<<RSet({"/"}), RLit(<<"d","i","r","e","c","t","o","r","y">>),
                     RLit(<<"f","o","l","d","e","r">>)>>)>>),
       \* /(?:in|to|at)\s+(?:the\s+)?([a-zA-Z\/\-_]+(?:\/[a-zA-Z\-_]+)+)/i
       RCat(<<RPreposition,
              RCap(RCat(<<RPlus(RSet(LetterCh \cup {"/", "-", "_"})),
                          RPlus(RCat(<<RSet({"/"}), RPlus(RSet(LetterCh \cup {"-", "_"}))>>))>>))>>) >>

NoString == <<>>

\* the loop over filePatterns: the capture of the first pattern that matches
RECURSIVE DetectFileName(_, _)
DetectFileName(prompt, k) ==
    IF k > Len(filePatterns) THEN NoString
    ELSE LET m == RxSearch(filePatterns[k], prompt)
         IN  IF m.found /\ Len(m.g1) > 0 THEN m.g1 ELSE DetectFileName(prompt, k + 1)

\* match[1].replace(/\/$/, '')
StripOneSlash(s) == IF Len(s) > 0 /\ s[Len(s)] = "/" THEN SubSeq(s, 1, Len(s) - 1) ELSE s

\* the loop over folderPatterns: the first capture without a dot and longer than 2
RECURSIVE ExtractFolder(_, _)
ExtractFolder(prompt, k) ==
    IF k > Len(folderPatterns) THEN NoString
    ELSE LET m == RxSearch(folderPatterns[k], prompt)
             extracted == StripOneSlash(m.g1)
         IN  IF m.found /\ Len(m.g1) > 0 /\ ~Includes(extracted, <<".">>) /\ Len(extracted) > 2
             THEN extracted
             ELSE ExtractFolder(prompt, k + 1)

\* path.normalize on the segments of a path: "." dropped, ".." pops
RECURSIVE NormalizeSegments(_, _, _)
NormalizeSegments(segs, k, acc) ==
    IF k > Len(segs) THEN acc
    ELSE IF segs[k] = <<".">> THEN NormalizeSegments(segs, k + 1, acc)
    ELSE IF segs[k] = <<".", ".">> /\ Len(acc) > 0 /\ acc[Len(acc)] # <<".", ".">>
         THEN NormalizeSegments(segs, k + 1, SubSeq(acc, 1, Len(acc) - 1))
    ELSE NormalizeSegments(segs, k + 1, Append(acc, segs[k]))

\* path.join(a, b) for the POSIX separator
PathJoin(a, b) ==
    LET joined == IF Len(a) = 0 THEN b ELSE a \o <<"/">> \o b
        body == JoinWith(NormalizeSegments(PathSegments(joined), 1, <<>>), "/")
    IN  IF Len(joined) > 0 /\ joined[1] = "/" THEN <<"/">> \o body
        ELSE IF Len(body) = 0 THEN <<".">> ELSE body

\* an action of the kind modify for the detected path
ModifyDetectedAction(filePath) == [type |-> "modify_file", filePath |-> filePath]

CreateFileAction(filePath) == [type |-> "create_file", filePath |-> filePath]

\* lines 136-148: the extracted folder verified against the catalog
ResolveFolder(paths, prompt, fileName) ==
    LET targetFolder == ExtractFolder(prompt, 1)
    IN  IF Len(targetFolder) > 0
        THEN IF SeqIncludes(paths, targetFolder) THEN targetFolder
             ELSE findBestMatchingFolder(paths, targetFolder)
        ELSE inferFolderFromStructure(paths, fileName)

detectActions(paths, prompt) ==
    LET locationMatch == RxSearch(LocationPattern, prompt)
        fileName == DetectFileName(prompt, 1)
    IN  IF locationMatch.found THEN <<CreateFileAction(locationMatch.g1)>>
        ELSE IF Len(fileName) > 0
             THEN <<CreateFileAction(PathJoin(ResolveFolder(paths, prompt, fileName), fileName))>>
             ELSE <<>>

(***************************************************************************)
(* repoIndexer.ts: the chunker (parseFile)                                 *)
(***************************************************************************)
\* a literal of a pattern without the i flag
RExact(str) == RCat([k \in 1..Len(str) |-> RSet({str[k]})])

\* /(?:function|def|fn|func|fun|method|async\s+function)\s+(\w+)/
FunctionPattern ==
    RCat(<<RAlt(<<RExact(<<"f","u","n","c","t","i","o","n">>), RExact(<<"d","e","f">>),
                  RExact(<<"f","n">>), RExact(<<"f","u","n","c">>), RExact(<<"f","u","n">>),
                  RExact(<<"m","e","t","h","o","d">>),
                  RCat(<<RExact(<<"a","s","y","n","c">>), RPlus(RSpace),
                         RExact(<<"f","u","n","c","t","i","o","n">>)>>)>>),
           RPlus(RSpace), RCap(RPlus(RWord))>>)

\* /(?:class|interface|struct|type)\s+(\w+)/
ClassPattern ==
    RCat(<<RAlt(<<RExact(<<"c","l","a","s","s">>),
                  RExact(<<"i","n","t","e","r","f","a","c","e">>),
                  RExact(<<"s","t","r","u","c","t">>), RExact(<<"t","y","p","e">>)>>),
           RPlus(RSpace), RCap(RPlus(RWord))>>)

\* "function login()"
LineFunction == <<"f","u","n","c","t","i","o","n"," ","l","o","g","i","n","(",")">>

\* "class Session"
LineClass == <<"c","l","a","s","s"," ","S","e","s","s","i","o","n">>

\* "x"
LinePlain == <<"x">>

LineEmpty == <<>>

\* the keywords extractKeywords keeps of a chunk
MaxKeywords == 50

\* "login session token"
LineNotes == <<"l","o","g","i","n"," ","s","e","s","s","i","o","n"," ","t","o","k","e","n">>

\* "abc" as often as a chunk keeps keywords, then "login": abc abc ... abc login
LineLate ==
    JoinWith([k \in 1..(MaxKeywords + 1) |-> IF k <= MaxKeywords THEN <<"a","b","c">> ELSE <<"l","o","g","i","n">>],
             " ")

\* the lines the files of the model are made of
SourceLines == {LineFunction, LineClass, LinePlain, LineEmpty, LineNotes, LineLate}

\* the two matches parseFile takes of a line
MatchDeclaration(line) ==
    [functionMatch |-> RxSearch(FunctionPattern, line),
     classMatch |-> RxSearch(ClassPattern, line)]

\* the matches of the lines of the model
Declarations == [line \in SourceLines |-> MatchDeclaration(line)]

\* the chunk size at which parseFile cuts
ChunkLimit == 50

\* the value of a property that was not set
Undefined == <<"undefined">>

DigitSeq == <<"0","1","2","3","4","5","6","7","8","9">>

\* a number in a template literal
RECURSIVE NumberToString(_)
NumberToString(n) ==
    IF n < 10 THEN <<DigitSeq[n + 1]>>
    ELSE NumberToString(n \div 10) \o <<DigitSeq[(n % 10) + 1]>>

\* toLowerCase, replace(/[^\w\s]/g, ' ') and split(/\s+/): the runs of word
\* characters of the text in lower case, and empty strings
WordsOf(text) == SplitRange(ToLowerCase(text), 1, Len(text), WordCh, FALSE)

Take(xs, n) == SubSeq(xs, 1, IF Len(xs) < n THEN Len(xs) ELSE n)

extractKeywords(text) ==
    Take(SelectSeq(WordsOf(text), LAMBDA w : Len(w) > 2), MaxKeywords)

\* the chunk parseFile pushes
CodeChunk(relativePath, currentChunk, startLine, endLine, chunkType, chunkName) ==
    [id |-> relativePath \o <<":">> \o NumberToString(startLine),
     filePath |-> relativePath,
     content |-> JoinWith(currentChunk, "\n"),
     startLine |-> startLine,
     endLine |-> endLine,
     type |-> chunkType,
     name |-> chunkName,
     keywords |-> extractKeywords(JoinWith(currentChunk, "\n"))]

\* the end line of the chunk that a declaration on line i closes
ClosedChunkEndAtDeclaration(i) == i

ClosedChunkEnd(i) == i - 1

\* the variables of the loop of parseFile
ParseState(chunks, currentChunk, startLine, chunkType, chunkName) ==
    [chunks |-> chunks, currentChunk |-> currentChunk, startLine |-> startLine,
     chunkType |-> chunkType, chunkName |-> chunkName]

\* the body of the loop of parseFile for line i (counted from 0)
ParseLine(st, lines, i, relativePath) ==
    LET line == lines[i + 1]
        functionMatch == Declarations[line].functionMatch
        classMatch == Declarations[line].classMatch
    IN  IF functionMatch.found \/ classMatch.found
        THEN ParseState(IF Len(st.currentChunk) > 0
                        THEN Append(st.chunks,
                                    CodeChunk(relativePath, st.currentChunk, st.startLine,
                                              ClosedChunkEnd(i), st.chunkType, st.chunkName))
                        ELSE st.chunks,
                        <<line>>, i,
                        IF functionMatch.found THEN "function" ELSE "class",
                        IF functionMatch.found THEN functionMatch.g1 ELSE classMatch.g1)
        ELSE IF Len(st.currentChunk) + 1 >= ChunkLimit
             THEN ParseState(Append(st.chunks,
                                    CodeChunk(relativePath, Append(st.currentChunk, line),
                                              st.startLine, i, st.chunkType, st.chunkName)),
                             <<>>, i + 1, "snippet", Undefined)
             ELSE ParseState(st.chunks, Append(st.currentChunk, line), st.startLine,
                             st.chunkType, st.chunkName)

\* the loop of parseFile over the lines lo..hi in their order: the range is split
\* in halves, and the second half starts from the state the first half ended in
\* (ParseOn reads that state before it goes on, which keeps the evaluation of the
\* two halves apart)
RECURSIVE ParseLines(_, _, _, _, _)
ParseOn(first, lines, lo, hi, relativePath) ==
    IF first.startLine >= 0 THEN ParseLines(first, lines, lo, hi, relativePath) ELSE first

ParseLines(st, lines, lo, hi, relativePath) ==
    IF lo > hi THEN st
    ELSE IF lo = hi THEN ParseLine(st, lines, lo, relativePath)
    ELSE ParseOn(ParseLines(st, lines, lo, (lo + hi) \div 2, relativePath),
                 lines, (lo + hi) \div 2 + 1, hi, relativePath)

\* parseFile on the text that readFileSync returned
parseFile(relativePath, content) ==
    LET lines == Split(content, "\n")
        st == ParseLines(ParseState(<<>>, <<>>, 0, "snippet", Undefined), lines, 0,
                         Len(lines) - 1, relativePath)
    IN  IF Len(st.currentChunk) > 0
        THEN Append(st.chunks,
                    CodeChunk(relativePath, st.currentChunk, st.startLine, Len(lines) - 1,
                              st.chunkType, st.chunkName))
        ELSE st.chunks

(***************************************************************************)
(* Bounds of the model and the inputs it draws                             *)
(***************************************************************************)
\* proposals a session may stage
MaxProposals == 2

\* the executeAgentAction calls that may be in progress at the same time
ExecCalls == {1, 2}

P_src_test == <<"s","r","c","/","t","e","s","t">>

P_src_test_features == <<"s","r","c","/","t","e","s","t","/","f","e","a","t","u","r","e","s">>

P_src_components == <<"s","r","c","/","c","o","m","p","o","n","e","n","t","s">>

P_tests_features == <<"t","e","s","t","s","/","f","e","a","t","u","r","e","s">>

P_node_modules == <<"n","o","d","e","_","m","o","d","u","l","e","s">>

P_node_modules_test == <<"n","o","d","e","_","m","o","d","u","l","e","s","/","t","e","s","t">>

P_login_feature_in_test == <<"s","r","c","/","t","e","s","t","/","l","o","g","i","n",".","f","e","a","t","u","r","e">>

P_login_feature_in_features == <<"s","r","c","/","t","e","s","t","/","f","e","a","t","u","r","e","s","/","l","o","g","i","n",".","f","e","a","t","u","r","e">>

P_app == <<"a","p","p">>

P_app_test == <<"a","p","p","/","t","e","s","t">>

P_lib == <<"l","i","b">>

P_lib_test == <<"l","i","b","/","t","e","s","t">>

P_pkg == <<"p","k","g">>

P_pkg_web == <<"p","k","g","/","w","e","b">>

P_pkg_web_src == <<"p","k","g","/","w","e","b","/","s","r","c">>

P_pkg_web_src_test == <<"p","k","g","/","w","e","b","/","s","r","c","/","t","e","s","t">>

P_pkg_web_src_test_features == <<"p","k","g","/","w","e","b","/","s","r","c","/","t","e","s","t","/","f","e","a","t","u","r","e","s">>

H_test_features == <<"t","e","s","t","/","f","e","a","t","u","r","e","s">>

H_Src_Test_slash == <<"S","r","c","/","T","e","s","t","/">>

H_lib_util == <<"l","i","b","/","u","t","i","l">>

H_Test == <<"T","e","s","t">>

\* "Create login.feature in src/test/features"
PromptCreateLogin == <<"C","r","e","a","t","e"," ","l","o","g","i","n",".","f","e","a","t","u","r","e"," ","i","n"," ","s","r","c","/","t","e","s","t","/","f","e","a","t","u","r","e","s">>

\* "Create login.feature in src/test/features folder"
PromptCreateLoginFolder == <<"C","r","e","a","t","e"," ","l","o","g","i","n",".","f","e","a","t","u","r","e"," ","i","n"," ","s","r","c","/","t","e","s","t","/","f","e","a","t","u","r","e","s"," ","f","o","l","d","e","r">>

\* "**Location:** src/app/util.ts"
PromptLocation == <<"*","*","L","o","c","a","t","i","o","n",":","*","*"," ","s","r","c","/","a","p","p","/","u","t","i","l",".","t","s">>

\* "explain the login flow"
PromptExplain == <<"e","x","p","l","a","i","n"," ","t","h","e"," ","l","o","g","i","n"," ","f","l","o","w">>

\* add, then cart.spec.ts between backquotes
PromptQuotedSpec == <<"a","d","d"," ",BackQuote,"c","a","r","t",".","s","p","e","c",".","t","s",BackQuote>>

\* "new file named cart.test.ts"
PromptNamedTest == <<"n","e","w"," ","f","i","l","e"," ","n","a","m","e","d"," ","c","a","r","t",".","t","e","s","t",".","t","s">>

\* "Create login.feature"
PromptCreateLoginNoFolder == <<"C","r","e","a","t","e"," ","l","o","g","i","n",".","f","e","a","t","u","r","e">>

\* the texts a user sends in a session
Prompts == {PromptCreateLogin, PromptLocation, PromptExplain}

\* workspaces, each the list of its directories in the order a scan walks them
WorkspaceFull == <<S_src, P_src_components, P_src_test, P_src_test_features>>

WorkspaceFlat == <<S_src, P_src_components>>

WorkspaceDeps == <<P_node_modules, P_node_modules_test, S_tests, P_tests_features>>

\* two directories of the same length that hold the same word
WorkspaceTie == <<P_app, P_app_test, P_lib, P_lib_test>>

\* a tree deeper than the scan goes
WorkspaceDeep ==
    <<P_pkg, P_pkg_web, P_pkg_web_src, P_pkg_web_src_test, P_pkg_web_src_test_features>>

WorkspaceEmpty == <<>>

\* the workspaces of the chat sessions
Workspaces == {WorkspaceFull, WorkspaceFlat, WorkspaceDeps}

\* the workspaces action detection and folder resolution are applied to
InferenceWorkspaces == Workspaces \cup {WorkspaceTie, WorkspaceDeep, WorkspaceEmpty}

\* the texts action detection is applied to
InferencePrompts ==
    {PromptCreateLogin, PromptCreateLoginFolder, PromptLocation, PromptExplain,
     PromptQuotedSpec, PromptNamedTest, PromptCreateLoginNoFolder}

\* the folder hints best-match resolution is applied to
FolderHints ==
    {H_test_features, S_test, P_src_test, H_Src_Test_slash, S_features, H_lib_util,
     S_components, S_tests, H_Test, P_app, S_src}

\* the parts a chunked file is made of: at most MaxSegments of them
MaxSegments == 3

\* a part is a declaration line, or a run of plain lines
SegmentKinds == {"function", "class", "blank", "run1", "run49", "run50"}

Repeat(x, n) == [k \in 1..n |-> x]

SegmentLines(kind) ==
    CASE kind = "function" -> <<LineFunction>>
      [] kind = "class" -> <<LineClass>>
      [] kind = "blank" -> <<LineEmpty>>
      [] kind = "run1" -> <<LinePlain>>
      [] kind = "run49" -> Repeat(LinePlain, 49)
      [] kind = "run50" -> Repeat(LinePlain, 50)

RECURSIVE ShapeLines(_)
ShapeLines(shape) ==
    IF Len(shape) = 0 THEN <<>> ELSE SegmentLines(Head(shape)) \o ShapeLines(Tail(shape))

\* the file contents the chunker is applied to
FileShapes == UNION {[1..n -> SegmentKinds] : n \in 0..MaxSegments}

FileText(shape) == JoinWith(ShapeLines(shape), "\n")

F_a == <<"a",".","t","s">>

F_b == <<"b",".","t","s">>

\* files a workspace may already hold when the session starts
InitialFileSets == {{}, {P_login_feature_in_test}}

\* texts the language model may return as file content
Contents == {"generated"}

\* a file no workspace holds
P_missing_feature == <<"s","r","c","/","t","e","s","t","/","m","i","s","s","i","n","g",".","f","e","a","t","u","r","e">>

ModifyFileAction(filePath) == [type |-> "modify_file", filePath |-> filePath]

DeleteFileAction(filePath) == [type |-> "delete_file", filePath |-> filePath]

RunCommandAction(command) == [type |-> "run_command", command |-> command]

\* lists of several actions for executeAgentAction: its loop runs whatever list the
\* pending proposal holds (detectActions itself stages lists of one action)
ActionLists ==
    {<<ModifyFileAction(P_missing_feature), CreateFileAction(P_login_feature_in_test),
       RunCommandAction("npm test")>>,
     <<CreateFileAction(P_login_feature_in_test), DeleteFileAction(P_login_feature_in_test)>>,
     <<DeleteFileAction(P_login_feature_in_test), CreateFileAction(P_login_feature_in_test),
       ModifyFileAction(P_login_feature_in_test)>>}

OriginalContent == "orig"

NULL == [null |-> TRUE]

(***************************************************************************)
(* repoIndexer.ts: the index, its document and the calls that change them  *)
(***************************************************************************)
\* workspaceFolder.uri.fsPath
Root == <<"/","w">>

AbsolutePath(relativePath) == Root \o <<"/">> \o relativePath

\* path.relative(workspaceRoot, filePath) of a file below the root
RelativePath(workspaceRoot, filePath) ==
    SubSeq(filePath, Len(workspaceRoot) + 2, Len(filePath))

FileMissing == [kind |-> "missing"]

FileWith(text) == [kind |-> "file", text |-> text]

\* a file of the build output
F_dist == <<"d","i","s","t","/","c",".","t","s">>

\* the names shouldIgnoreFile lists
ignorePaths ==
    {<<"n","o","d","e","_","m","o","d","u","l","e","s">>,
     <<"d","i","s","t">>,
     <<"b","u","i","l","d">>,
     <<"o","u","t">>,
     <<".","g","i","t">>,
     <<".","v","s","c","o","d","e">>,
     <<"v","e","n","v">>,
     <<"_","_","p","y","c","a","c","h","e","_","_">>,
     <<".","p","y","t","e","s","t","_","c","a","c","h","e">>,
     <<"t","a","r","g","e","t">>,
     <<"b","i","n">>,
     <<"o","b","j">>}

\* ignorePaths.some(ignorePath => filePath.includes(ignorePath))
shouldIgnoreFile(filePath) == \E ignorePath \in ignorePaths : Includes(filePath, ignorePath)

\* the walk of getAllCodeFiles: the entries that exist and that shouldIgnoreFile
\* lets pass, in the order of readdirSync
getAllCodeFiles(files) ==
    SelectSeq(<<AbsolutePath(F_a), AbsolutePath(F_b), AbsolutePath(F_dist)>>,
              LAMBDA p : /\ RelativePath(Root, p) \in DOMAIN files
                         /\ ~shouldIgnoreFile(p)
                         /\ files[RelativePath(Root, p)].kind # "missing")

maxFiles == 2000

\* a chunk object in memory: its properties, and the calls that hold a reference
\* to it in an array of their own
ChunkObject(chunk, refs) ==
    [k \in DOMAIN chunk \cup {"refs"} |-> IF k = "refs" THEN refs ELSE chunk[k]]

Prop(object, key) == IF key \in DOMAIN object THEN object[key] ELSE Undefined

SetProp(object, key, value) ==
    [k \in DOMAIN object \cup {key} |-> IF k = key THEN value ELSE object[k]]

\* await this.parseFile(filePath, workspaceRoot): the chunks, or the error of
\* readFileSync
TryParse(files, filePath, workspaceRoot) ==
    LET relativePath == RelativePath(workspaceRoot, filePath)
    IN  IF files[relativePath].kind = "file"
        THEN [ok |-> TRUE,
              chunks |-> LET chunks == parseFile(relativePath, files[relativePath].text)
                         IN  [k \in 1..Len(chunks) |-> ChunkObject(chunks[k], {})]]
        ELSE [ok |-> FALSE, chunks |-> <<>>]

\* new Date() at the instant ms
DateValue(ms) == [kind |-> "Date", ms |-> ms]

StringValue(text) == [kind |-> "string", text |-> text]

\* Date.prototype.toJSON: the instant written as text
DateToJSON(ms) == NumberToString(ms) \o <<"Z">>

DigitValue(c) == CHOOSE d \in 0..9 : DigitSeq[d + 1] = c

RECURSIVE ParseDigits(_, _, _)
ParseDigits(text, k, acc) ==
    IF k > Len(text) \/ text[k] \notin DigitCh THEN acc
    ELSE ParseDigits(text, k + 1, acc * 10 + DigitValue(text[k]))

\* new Date(text) of a text that toJSON wrote
DateFromJSON(text) == DateValue(ParseDigits(text, 1, 0))

\* the properties JSON.stringify leaves out when they are undefined
OptionalProps == {"name", "embedding"}

StringifyChunk(object) ==
    [k \in {j \in DOMAIN object \ {"refs"} :
                j \notin OptionalProps \/ object[j] # Undefined} |-> object[k]]

StringifyChunks(chunks) == [k \in 1..Len(chunks) |-> StringifyChunk(chunks[k])]

\* JSON.stringify(this.indexedRepo, null, 2), as the value the text denotes
Stringify(repo) ==
    [chunks |-> StringifyChunks(repo.chunks),
     lastIndexed |-> IF repo.lastIndexed.kind = "Date"
                     THEN DateToJSON(repo.lastIndexed.ms) ELSE repo.lastIndexed.text,
     workspaceRoot |-> repo.workspaceRoot,
     hasEmbeddings |-> repo.hasEmbeddings]

NoDocument == [kind |-> "missing"]

DamagedDocument == [kind |-> "damaged"]

Document(json) == [kind |-> "document", json |-> json]

\* saveIndex: the file at indexPath after the call
saveIndex(repo, document) ==
    IF repo = NULL THEN document ELSE Document(Stringify(repo))

\* loadIndex leaves lastIndexed the text it read
ReviveLastIndexedAsText(text) == StringValue(text)

\* parsed.lastIndexed = new Date(parsed.lastIndexed)
ReviveLastIndexed(text) == DateFromJSON(text)

\* JSON.parse of the document, with lastIndexed converted
ParseDocument(json) ==
    [chunks |-> [k \in 1..Len(json.chunks) |-> ChunkObject(json.chunks[k], {})],
     lastIndexed |-> ReviveLastIndexed(json.lastIndexed),
     workspaceRoot |-> json.workspaceRoot,
     hasEmbeddings |-> json.hasEmbeddings]

\* a rebuild is let through although one is running
RebuildRejectedNever(indexing) == FALSE

\* if (this.isIndexing) { showWarningMessage; return }
RebuildRejected(indexing) == indexing

\* the filter of updateFile keeps every chunk
KeepsChunkAlways(chunk, relativePath) == TRUE

\* chunk => chunk.filePath !== relativePath
KeepsChunk(chunk, relativePath) == chunk.filePath # relativePath

\* the embedding a provider returns for a text
Vector == <<"vector">>

IdleCall == [pc |-> "idle"]

Proc(kind, n) == <<kind, n>>

Step(op, at, call) == [op |-> op, at |-> at, call |-> call]

NoStep == Step("none", "none", 0)

\* the chunks of an array that stops being the array of the index: each stays
\* referenced by the calls that hold the array
HeldBy(chunks, procs) ==
    [k \in 1..Len(chunks) |-> [chunks[k] EXCEPT !.refs = @ \cup procs]]

\* a call hands its references to another call, or drops them
Retag(chunks, from, to) ==
    [k \in 1..Len(chunks) |->
        [chunks[k] EXCEPT !.refs = IF from \in @ THEN (@ \ {from}) \cup to ELSE @]]

RetagRepo(repo, from, to) ==
    IF repo = NULL THEN repo ELSE [repo EXCEPT !.chunks = Retag(@, from, to)]

RetagArray(held, from, to) == IF from \in held THEN (held \ {from}) \cup to ELSE held

\* chunk.embedding = embeddings[idx] for the chunks that the call refers to
Embed(chunks, proc) ==
    [k \in 1..Len(chunks) |->
        IF proc \in chunks[k].refs
        THEN SetProp([chunks[k] EXCEPT !.refs = @ \ {proc}], "embedding", Vector)
        ELSE chunks[k]]

LowestIdle(calls, c) ==
    /\ calls[c].pc = "idle"
    /\ \A d \in DOMAIN calls : calls[d].pc = "idle" => c <= d

\* the instants the clock may show: 1..MaxClock
MaxClock == 2

\* the calls of indexRepositoryFast, of updateFile and of
\* generateEmbeddingsInBackground that may be in progress together
RebuildCalls == {1, 2}

UpdateCalls == {1, 2}

BackfillCalls == {1}

\* the answers to the question of generateEmbeddingsInBackground
Answers == {"Yes", "No"}

\* "class Session"
TextClass == LineClass

\* "x" and "function login()" on two lines
TextPlainFunction == JoinWith(<<LinePlain, LineFunction>>, "\n")

\* what a source file may be: a.ts is written and deleted, b.ts is left alone
FileStates ==
    [f \in {F_a, F_b} |->
        IF f = F_a
        THEN {FileMissing, FileWith(TextClass), FileWith(TextPlainFunction)}
        ELSE {FileWith(TextClass)}]

\* the calls of a workspace in which one file is reported at a time
OneAtATime == {1}

\* the answers of a user who does not want embeddings
Declined == {"No"}

\* "function login()" and "x" on two lines
TextFunctionPlain == JoinWith(<<LineFunction, LinePlain>>, "\n")

\* "function login()" and "class Session" on two lines
TextFunctionClass == JoinWith(<<LineFunction, LineClass>>, "\n")

\* a workspace with the two files
Workspace(a, b) == [f \in {F_a, F_b} |-> IF f = F_a THEN a ELSE b]

\* the workspaces that are queried
QueryWorkspaces ==
    {Workspace(FileMissing, FileWith(TextClass)),
     Workspace(FileWith(TextFunctionPlain), FileWith(TextClass)),
     Workspace(FileWith(TextClass), FileWith(TextFunctionPlain)),
     Workspace(FileWith(LineNotes), FileWith(TextFunctionClass)),
     Workspace(FileWith(TextFunctionClass), FileWith(LineNotes)),
     Workspace(FileWith(TextFunctionClass), FileWith(TextFunctionClass)),
     Workspace(FileWith(TextPlainFunction), FileWith(TextClass)),
     Workspace(FileWith(TextPlainFunction), FileWith(LineNotes))}

\* the workspaces queried by keyword: those, and two in which a.ts or b.ts names
\* login after as many other words as a chunk keeps keywords
KeywordWorkspaces ==
    QueryWorkspaces \cup {Workspace(FileWith(LineLate), FileWith(TextClass)),
                          Workspace(FileWith(TextClass), FileWith(LineLate))}

\* the workspace that is patched while it is queried
PatchedWorkspaces == {Workspace(FileWith(TextFunctionPlain), FileWith(TextClass))}

\* the queries made of it
PatchQueries == {<<"l","o","g","i","n">>}

Q_login_session == <<"l","o","g","i","n"," ","s","e","s","s","i","o","n">>

Q_Login_login == <<"L","o","g","i","n",","," ","l","o","g","i","n","!">>

Q_session == <<"s","e","s","s","i","o","n">>

Q_x == <<"x">>

Q_create_in_ts == <<"c","r","e","a","t","e"," ","a"," ","f","i","l","e"," ","i","n"," ","t","s">>

Q_add_to_a == <<"a","d","d"," ","f","e","a","t","u","r","e"," ","t","o"," ","a">>

Q_new_under_B == <<"n","e","w"," ","f","i","l","e"," ","u","n","d","e","r"," ","B">>

Q_create_in_src == <<"c","r","e","a","t","e"," ","f","i","l","e"," ","i","n"," ","s","r","c">>

Q_make_file == <<"m","a","k","e"," ","a"," ","f","i","l","e">>

Q_login_in_ts == <<"l","o","g","i","n"," ","i","n"," ","t","s">>

Queries == {Q_login_session, Q_Login_login, Q_session, Q_x, Q_create_in_ts, Q_add_to_a,
            Q_new_under_B, Q_create_in_src, Q_make_file, Q_login_in_ts}

\* the numbers of chunks asked for
TopKs == {1, 3}

(***************************************************************************)
(* utils/embeddings.ts: the local embedding provider and cosineSimilarity   *)
(***************************************************************************)
\* String.prototype.charCodeAt for the characters a token is made of
CharCode(c) ==
    IF \E k \in 1..26 : AlphaL[k] = c THEN 96 + (CHOOSE k \in 1..26 : AlphaL[k] = c)
    ELSE IF \E k \in 1..10 : DigitSeq[k] = c THEN 47 + (CHOOSE k \in 1..10 : DigitSeq[k] = c)
    ELSE 95

\* the buckets of an embedding
EmbeddingSize == 384

\* two to the sixteenth: a 32-bit hash is kept as its two halves
Half == 65536

\* hash = ((hash << 5) - hash) + char; hash = hash & hash  -- 31 * hash + char
\* in 32 bits
HashStep(hash, char) ==
    LET lo == hash.lo * 31 + char
    IN  [hi |-> (hash.hi * 31 + lo \div Half) % Half, lo |-> lo % Half]

RECURSIVE HashFrom(_, _, _)
HashFrom(str, i, hash) ==
    IF i > Len(str) THEN hash ELSE HashFrom(str, i + 1, HashStep(hash, CharCode(str[i])))

\* Math.abs(simpleHash(token)) % 384; the 32 bits are a negative number when
\* the upper half has its top bit set, and 65536 and 2^32 are both 256 modulo 384
Bucket(token) ==
    LET hash == HashFrom(token, 1, [hi |-> 0, lo |-> 0])
        unsigned == (hash.hi * 256 + hash.lo) % EmbeddingSize
    IN  IF hash.hi < Half \div 2 THEN unsigned
        ELSE (256 + EmbeddingSize - unsigned) % EmbeddingSize

\* tokenize: lower case, punctuation to spaces, split on white space, no empty
\* token
Tokenize(text) == SelectSeq(WordsOf(text), NonEmpty)

\* 1 / (idx + 1) in twelfths: a whole number for the first four tokens of a
\* text, and the texts that are embedded here have no more
Weight(idx) == 12 \div (idx + 1)

\* the sum of the values of a function on a finite set
RECURSIVE SumOf(_)
SumOf(f) ==
    IF DOMAIN f = {} THEN 0
    ELSE LET x == CHOOSE y \in DOMAIN f : TRUE
         IN  f[x] + SumOf([y \in DOMAIN f \ {x} |-> f[y]])

\* generateEmbedding before it normalizes, in twelfths: bucket -> sum of the
\* weights of the tokens that fall in it (the buckets left out hold 0)
RawEmbedding(text) ==
    LET tokens == Tokenize(text)
    IN  [b \in {Bucket(tokens[k]) : k \in 1..Len(tokens)} |->
            SumOf([k \in {j \in 1..Len(tokens) : Bucket(tokens[j]) = b} |-> Weight(k - 1)])]

Dot(a, b) == SumOf([k \in DOMAIN a \cap DOMAIN b |-> a[k] * b[k]])

\* cosineSimilarity of the normalized embeddings of two texts, as the fraction
\* dot / sqrt(aa * bb) of whole numbers; 0 when a vector is all zero
Similarity(a, b) ==
    LET aa == Dot(a, a)
        bb == Dot(b, b)
    IN  IF aa = 0 \/ bb = 0 THEN [dot |-> 0, aa |-> 1, bb |-> 1]
        ELSE [dot |-> Dot(a, b), aa |-> aa, bb |-> bb]

\* score > bestScore for two similarities to the same vector a: no component
\* is negative, so the squares compare as the fractions do
ScoreAboveOrEqual(score, bestScore) ==
    score.dot * score.dot * bestScore.bb >= bestScore.dot * bestScore.dot * score.bb

ScoreAbove(score, bestScore) ==
    score.dot * score.dot * bestScore.bb > bestScore.dot * bestScore.dot * score.bb

(***************************************************************************)
(* repoIndexer.ts: queries (queryRelevantCode and its two strategies)      *)
(***************************************************************************)
\* /create|add|new|make/i and /file|feature/i
IntentWords == {<<"c","r","e","a","t","e">>, <<"a","d","d">>, <<"n","e","w">>, <<"m","a","k","e">>}

ObjectWords == {<<"f","i","l","e">>, <<"f","e","a","t","u","r","e">>}

isFileCreation(query) ==
    /\ \E word \in IntentWords : Includes(ToLowerCase(query), word)
    /\ \E word \in ObjectWords : Includes(ToLowerCase(query), word)

\* /(?:in|to|under)\s+(\w+(?:\/\w+)*)/i
FolderMatchPattern ==
    RCat(<<RAlt(<<RLit(<<"i","n">>), RLit(<<"t","o">>), RLit(<<"u","n","d","e","r">>)>>), RPlus(RSpace),
           RCap(RCat(<<RPlus(RWord), RStar(RCat(<<RSet({"/"}), RPlus(RWord)>>))>>))>>)

DefaultFolder == <<"t","e","s","t">>

\* folderMatch ? folderMatch[1] : 'test'
TargetFolder(query) ==
    LET folderMatch == RxSearch(FolderMatchPattern, query)
    IN  IF folderMatch.found THEN folderMatch.g1 ELSE DefaultFolder

\* chunk => chunk.filePath.toLowerCase().includes(folder.toLowerCase())
InFolder(chunk, folder) == Includes(ToLowerCase(chunk.filePath), ToLowerCase(folder))

\* the query in lower case, split at what is no word character, without the
\* pieces of one or two characters
QueryKeywordsLong(query) == SelectSeq(WordsOf(query), LAMBDA w : Len(w) > 5)

QueryKeywords(query) == SelectSeq(WordsOf(query), LAMBDA w : Len(w) > 2)

\* one for every query keyword that the Set of the chunk's keywords has
calculateKeywordScore(queryKeywords, chunkKeywords) ==
    Cardinality({k \in 1..Len(queryKeywords) : queryKeywords[k] \in Range(chunkKeywords)})

\* Array.prototype.sort((a, b) => b.score - a.score): the sort is stable, so an
\* entry comes before another when its score is above, or when neither score is
\* above the other and it came before
SortByScore(scored, Above(_, _)) ==
    LET Before(i, j) == \/ Above(scored[i].score, scored[j].score)
                        \/ /\ ~Above(scored[j].score, scored[i].score)
                           /\ i < j
        Place(i) == 1 + Cardinality({j \in 1..Len(scored) : Before(j, i)})
    IN  [p \in 1..Len(scored) |-> scored[CHOOSE i \in 1..Len(scored) : Place(i) = p]]

ChunksOf(scored) == [k \in 1..Len(scored) |-> scored[k].chunk]

\* a score is above another, for keyword scores
KeywordScoreBelow(a, b) == a < b

KeywordScoreAbove(a, b) == a > b

\* chunk.keywords || []
KeywordsOf(chunk) == IF "keywords" \in DOMAIN chunk THEN chunk.keywords ELSE <<>>

queryWithKeywords(chunks, query, topK) ==
    LET queryKeywords == QueryKeywords(query)
        scored == [k \in 1..Len(chunks) |->
                      [chunk |-> chunks[k],
                       score |-> calculateKeywordScore(queryKeywords, KeywordsOf(chunks[k]))]]
    IN  ChunksOf(Take(SortByScore(SelectSeq(scored, LAMBDA s : s.score > 0),
                                  KeywordScoreAbove), topK))

\* the characters of a chunk's content that are embedded
EmbeddedChars == 300

\* `${chunk.name || 'code'}: ${chunk.content.substring(0, 300)}`
EmbeddedText(chunk) ==
    (IF Prop(chunk, "name") = Undefined THEN <<"c","o","d","e">> ELSE Prop(chunk, "name")) \o <<":"," ">>
        \o Take(chunk.content, EmbeddedChars)

\* chunk.embedding of a chunk that has one: what the provider returned for the
\* text of the chunk, which never changes once the chunk is made
EmbeddingOf(chunk) == RawEmbedding(EmbeddedText(chunk))

\* chunk => chunk.embedding
HasEmbedding(chunk) == Prop(chunk, "embedding") # Undefined

queryWithEmbeddings(chunks, query, topK) ==
    LET queryEmbedding == RawEmbedding(query)
        withVector == SelectSeq(chunks, HasEmbedding)
        scored == [k \in 1..Len(withVector) |->
                      [chunk |-> withVector[k],
                       score |-> Similarity(queryEmbedding, EmbeddingOf(withVector[k]))]]
    IN  ChunksOf(Take(SortByScore(scored, ScoreAbove), topK))

\* what a file creation query returns: the chunks of the folder if there are
\* any, otherwise what the strategy returns
ShortcutLast(relevantChunks, generic) ==
    IF Len(generic) > 0 THEN generic ELSE relevantChunks

ShortcutFirst(relevantChunks, generic) ==
    IF Len(relevantChunks) > 0 THEN relevantChunks ELSE generic

queryRelevantCode(repo, query, topK) ==
    IF repo = NULL THEN <<>>
    ELSE IF Len(repo.chunks) = 0 THEN <<>>
    ELSE LET folder == TargetFolder(query)
             relevantChunks ==
                 Take(SelectSeq(repo.chunks, LAMBDA chunk : InFolder(chunk, folder)), topK)
             generic == IF repo.hasEmbeddings
                        THEN queryWithEmbeddings(repo.chunks, query, topK)
                        ELSE queryWithKeywords(repo.chunks, query, topK)
         IN  IF isFileCreation(query)
             THEN ShortcutFirst(relevantChunks, generic)
             ELSE generic

\* a vector whose length is not that of the local provider's vectors
LongerVector == <<"vector", "longer">>

\* a.length !== b.length, for the query's vector and a chunk's
LengthsDiffer(chunk) == Prop(chunk, "embedding") # Vector

\* throw new Error('Vectors must have the same length')
SameLengthMessage == "Vectors must have the same length"

\* queryRelevantCode comes to queryWithEmbeddings, whose map calls
\* cosineSimilarity on every chunk that has a vector, and one call throws
MismatchObserved(repo, query) ==
    /\ repo # NULL
    /\ Len(repo.chunks) > 0
    /\ ~(/\ isFileCreation(query)
          /\ \E k \in 1..Len(repo.chunks) : InFolder(repo.chunks[k], TargetFolder(query)))
    /\ repo.hasEmbeddings
    /\ \E k \in 1..Len(repo.chunks) :
           HasEmbedding(repo.chunks[k]) /\ LengthsDiffer(repo.chunks[k])

\* how the promise of queryRelevantCode settles: with the chunks, or with the
\* error of cosineSimilarity, which nothing in repoIndexer.ts catches
Settle(repo, query, topK) ==
    IF MismatchObserved(repo, query)
    THEN [ok |-> FALSE, error |-> SameLengthMessage, result |-> <<>>]
    ELSE [ok |-> TRUE, error |-> "", result |-> queryRelevantCode(repo, query, topK)]

\* the catch of enrichPrompt around getRelevantCodeContext: the error is
\* logged and codeContext stays []
CatchAndLog(settled) ==
    IF settled.ok THEN settled ELSE [ok |-> TRUE, error |-> "", result |-> <<>>]

\* queryRelevantCode(prompt, 3)
ContextChunks == 3

(***************************************************************************)
(* templateManager.ts: selecting a template and giving the reason          *)
(***************************************************************************)
\* keywordRules of selectBestTemplate, in the declared order
keywordRules ==
    <<[keywords |-> <<<<"e","x","p","l","a","i","n">>,
                       <<"h","o","w">>,
                       <<"w","h","a","t"," ","i","s">>,
                       <<"d","e","s","c","r","i","b","e">>>>,
        templateId |-> "persona_pattern"],
       [keywords |-> <<<<"s","t","e","p"," ","b","y"," ","s","t","e","p">>,
                       <<"s","t","e","p","s">>,
                       <<"p","r","o","c","e","d","u","r","e">>,
                       <<"h","o","w"," ","t","o">>>>,
        templateId |-> "chain_of_thought"],
       [keywords |-> <<<<"e","x","a","m","p","l","e">>,
                       <<"s","h","o","w"," ","m","e">>,
                       <<"d","e","m","o","n","s","t","r","a","t","e">>>>,
        templateId |-> "few_shot_examples"],
       [keywords |-> <<<<"c","r","e","a","t","e">>,
                       <<"b","u","i","l","d">>,
                       <<"i","m","p","l","e","m","e","n","t">>,
                       <<"d","e","v","e","l","o","p">>>>,
        templateId |-> "recipe_pattern"],
       [keywords |-> <<<<"c","o","m","p","a","r","e">>,
                       <<"d","i","f","f","e","r","e","n","c","e">>,
                       <<"v","e","r","s","u","s">>,
                       <<"v","s">>>>,
        templateId |-> "comparative_analysis"],
       [keywords |-> <<<<"a","l","t","e","r","n","a","t","i","v","e","s">>,
                       <<"o","p","t","i","o","n","s">>,
                       <<"a","p","p","r","o","a","c","h","e","s">>,
                       <<"w","a","y","s">>>>,
        templateId |-> "alternative_approaches"],
       [keywords |-> <<<<"r","e","f","a","c","t","o","r">>,
                       <<"i","m","p","r","o","v","e">>,
                       <<"o","p","t","i","m","i","z","e">>,
                       <<"b","e","t","t","e","r">>>>,
        templateId |-> "reflection_pattern"],
       [keywords |-> <<<<"d","e","s","i","g","n">>,
                       <<"a","r","c","h","i","t","e","c","t","u","r","e">>,
                       <<"s","t","r","u","c","t","u","r","e">>>>,
        templateId |-> "persona_pattern"],
       [keywords |-> <<<<"d","e","b","u","g">>,
                       <<"e","r","r","o","r">>,
                       <<"f","i","x">>,
                       <<"i","s","s","u","e">>,
                       <<"p","r","o","b","l","e","m">>>>,
        templateId |-> "cognitive_verifier"],
       [keywords |-> <<<<"t","e","s","t">>,
                       <<"v","e","r","i","f","y">>,
                       <<"v","a","l","i","d","a","t","e">>,
                       <<"c","h","e","c","k">>>>,
        templateId |-> "cognitive_verifier"],
       [keywords |-> <<<<"v","i","s","u","a","l","i","z","e">>,
                       <<"d","i","a","g","r","a","m">>,
                       <<"d","r","a","w">>,
                       <<"s","h","o","w"," ","f","l","o","w">>>>,
        templateId |-> "visualization_generator"],
       [keywords |-> <<<<"r","e","v","i","e","w">>,
                       <<"a","n","a","l","y","z","e">>,
                       <<"e","v","a","l","u","a","t","e">>>>,
        templateId |-> "fact_check_list"]>>

\* keywordMap of getTemplateSelectionReason, in the order of its entries
keywordMap ==
    <<<<<<"e","x","p","l","a","i","n">>, <<"w","h","a","t"," ","i","s">>, <<"d","e","s","c","r","i","b","e">>>>,
      <<<<"s","t","e","p"," ","b","y"," ","s","t","e","p">>, <<"h","o","w"," ","t","o">>, <<"s","t","e","p","s">>>>,
      <<<<"e","x","a","m","p","l","e">>, <<"s","h","o","w"," ","m","e">>, <<"d","e","m","o","n","s","t","r","a","t","e">>>>,
      <<<<"c","r","e","a","t","e">>, <<"b","u","i","l","d">>, <<"i","m","p","l","e","m","e","n","t">>>>,
      <<<<"c","o","m","p","a","r","e">>, <<"v","e","r","s","u","s">>, <<"d","i","f","f","e","r","e","n","c","e">>>>,
      <<<<"d","e","b","u","g">>, <<"e","r","r","o","r">>, <<"f","i","x">>, <<"i","s","s","u","e">>>>>>

\* `${template.name} ${template.description} ${template.category} ${template.example}`
TemplateText(template) ==
    template.name \o <<" ">> \o template.description \o <<" ">> \o template.category
        \o <<" ">> \o template.example

\* a file of the templates directory: its name, whether JSON.parse takes its
\* content, and the template it then yields
TemplateFile(name, parses, template) == [name |-> name, parses |-> parses, value |-> template]

DotJson == <<".","j","s","o","n">>

\* String.prototype.endsWith
EndsWith(s, suffix) ==
    Len(s) >= Len(suffix) /\ SubSeq(s, Len(s) - Len(suffix) + 1, Len(s)) = suffix

\* the loop of loadTemplates over the directory: the templates pushed, and
\* whether the loop came to its end (a file that does not parse throws)
RECURSIVE ReadTemplates(_, _, _)
ReadTemplates(files, k, pushed) ==
    IF k > Len(files) THEN [ok |-> TRUE, templates |-> pushed]
    ELSE IF ~EndsWith(files[k].name, DotJson) THEN ReadTemplates(files, k + 1, pushed)
    ELSE IF ~files[k].parses THEN [ok |-> FALSE, templates |-> pushed]
    ELSE ReadTemplates(files, k + 1, Append(pushed, files[k].value))

\* generateTemplateEmbeddings: templateEmbeddings.set(template.id, embedding)
\* for each template in turn, a later template of the same id replacing an
\* earlier one
generateTemplateEmbeddings(templates) ==
    [id \in {templates[k].id : k \in 1..Len(templates)} |->
        LET last == CHOOSE k \in 1..Len(templates) :
                        /\ templates[k].id = id
                        /\ \A j \in (k + 1)..Len(templates) : templates[j].id # id
        IN  RawEmbedding(TemplateText(templates[last]))]

\* null
NoTemplate == [id |-> "null"]

\* this.templates.find(t => t.id === id), as the place of the template or 0
FindTemplate(templates, id) ==
    IF \E k \in 1..Len(templates) : templates[k].id = id
    THEN CHOOSE k \in 1..Len(templates) :
             templates[k].id = id /\ \A j \in 1..(k - 1) : templates[j].id # id
    ELSE 0

\* the loops over keywordRules and the keywords of a rule: the first keyword
\* the text includes whose template the catalog holds
RECURSIVE ScanRules(_, _, _, _)
ScanRules(templates, promptLower, r, k) ==
    IF r > Len(keywordRules) THEN [by |-> "none", template |-> NoTemplate]
    ELSE IF k > Len(keywordRules[r].keywords) THEN ScanRules(templates, promptLower, r + 1, 1)
    ELSE IF /\ Includes(promptLower, keywordRules[r].keywords[k])
            /\ FindTemplate(templates, keywordRules[r].templateId) # 0
         THEN [by |-> "keyword", rule |-> r, keyword |-> keywordRules[r].keywords[k],
               template |-> templates[FindTemplate(templates, keywordRules[r].templateId)]]
         ELSE ScanRules(templates, promptLower, r, k + 1)

\* the loop of the fallback: bestScore starts at -1, below every similarity,
\* and a template takes the place of the best one on score > bestScore
RECURSIVE BestBySimilarity(_, _, _, _, _)
BestBySimilarity(templates, embeddings, promptEmbedding, k, best) ==
    IF k > Len(templates) THEN best
    ELSE IF templates[k].id \notin DOMAIN embeddings
         THEN BestBySimilarity(templates, embeddings, promptEmbedding, k + 1, best)
    ELSE LET score == Similarity(promptEmbedding, embeddings[templates[k].id])
         IN  BestBySimilarity(templates, embeddings, promptEmbedding, k + 1,
                 IF best.by = "none" \/ ScoreAbove(score, best.score)
                 THEN [by |-> "similarity", template |-> templates[k], score |-> score]
                 ELSE best)

\* selectBestTemplate, with how the template was chosen: by a keyword of a
\* rule, by similarity, or not at all
SelectTemplate(templates, embeddings, userPrompt) ==
    IF Len(templates) = 0 THEN [by |-> "none", template |-> NoTemplate]
    ELSE LET hit == ScanRules(templates, ToLowerCase(userPrompt), 1, 1)
         IN  IF hit.by = "keyword" THEN hit
             ELSE BestBySimilarity(templates, embeddings, RawEmbedding(userPrompt), 1,
                                   [by |-> "none", template |-> NoTemplate])

selectBestTemplate(templates, embeddings, userPrompt) ==
    SelectTemplate(templates, embeddings, userPrompt).template

\* the loops over keywordMap: the first of its keywords the text includes
RECURSIVE ScanKeywordMap(_, _, _)
ScanKeywordMap(promptLower, r, k) ==
    IF r > Len(keywordMap) THEN NoString
    ELSE IF k > Len(keywordMap[r]) THEN ScanKeywordMap(promptLower, r + 1, 1)
    ELSE IF Includes(promptLower, keywordMap[r][k]) THEN keywordMap[r][k]
    ELSE ScanKeywordMap(promptLower, r, k + 1)

\* 'No specific template - using direct format'
NoTemplateReason == <<"N","o"," ","s","p","e","c","i","f","i","c"," ","t","e","m","p","l","a","t","e"," ","-"," ","u","s","i","n","g"," ","d","i","r","e","c","t"," ","f","o","r","m","a","t">>

\* `${template.name} (keyword: "${keyword}")`
KeywordReason(name, keyword) ==
    name \o <<" ","(","k","e","y","w","o","r","d",":"," ","\"">> \o keyword \o <<"\"",")">>

\* `${template.name} (semantic match)`
SemanticReason(name) == name \o <<" ","(","s","e","m","a","n","t","i","c"," ","m","a","t","c","h",")">>

getTemplateSelectionReason(prompt, template) ==
    IF template = NoTemplate THEN NoTemplateReason
    ELSE LET keyword == ScanKeywordMap(ToLowerCase(prompt), 1, 1)
         IN  IF keyword # NoString THEN KeywordReason(template.name, keyword)
             ELSE SemanticReason(template.name)

\* templates of the catalog: the files of the templates directory are not part
\* of the sources, these stand for them
T_persona ==
    [id |-> "persona_pattern", name |-> <<"P","e","r","s","o","n","a">>, description |-> <<"e","x","p","e","r","t">>,
     category |-> <<"e","x","p","l","a","n","a","t","i","o","n">>, example |-> <<"m","e","n","t","o","r">>]

T_chain ==
    [id |-> "chain_of_thought", name |-> <<"C","h","a","i","n">>, description |-> <<"r","e","a","s","o","n","i","n","g">>,
     category |-> <<"p","r","o","c","e","d","u","r","a","l">>, example |-> <<"s","t","e","p","w","i","s","e">>]

T_recipe ==
    [id |-> "recipe_pattern", name |-> <<"R","e","c","i","p","e">>, description |-> <<"i","n","g","r","e","d","i","e","n","t","s">>,
     category |-> <<"c","r","e","a","t","i","o","n">>, example |-> <<"c","o","o","k">>]

T_reflection ==
    [id |-> "reflection_pattern", name |-> <<"R","e","f","l","e","c","t","i","o","n">>, description |-> <<"c","r","i","t","i","q","u","e">>,
     category |-> <<"i","m","p","r","o","v","e","m","e","n","t">>, example |-> <<"l","o","g","i","n">>]

T_outline ==
    [id |-> "outline_expander", name |-> <<"O","u","t","l","i","n","e">>, description |-> <<"l","o","g","i","n">>,
     category |-> <<"s","e","s","s","i","o","n">>, example |-> <<"p","a","g","e">>]

T_outline_twin ==
    [id |-> "outline_twin", name |-> <<"O","u","t","l","i","n","e">>, description |-> <<"l","o","g","i","n">>,
     category |-> <<"s","e","s","s","i","o","n">>, example |-> <<"p","a","g","e">>]

T_menu ==
    [id |-> "menu_actions", name |-> <<"M","e","n","u">>, description |-> <<"s","e","s","s","i","o","n">>,
     category |-> <<"p","a","g","e">>, example |-> <<"l","o","g","i","n">>]

\* "Explain the login flow"
Q_explain_login == <<"E","x","p","l","a","i","n"," ","t","h","e"," ","l","o","g","i","n"," ","f","l","o","w">>

\* "how to create a page"
Q_how_to_create == <<"h","o","w"," ","t","o"," ","c","r","e","a","t","e"," ","a"," ","p","a","g","e">>

\* "how does login work"
Q_how_works == <<"h","o","w"," ","d","o","e","s"," ","l","o","g","i","n"," ","w","o","r","k">>

\* "refactor the session"
Q_refactor == <<"r","e","f","a","c","t","o","r"," ","t","h","e"," ","s","e","s","s","i","o","n">>

\* "steps that explain it"
Q_steps_explain == <<"s","t","e","p","s"," ","t","h","a","t"," ","e","x","p","l","a","i","n"," ","i","t">>

\* "design a menu"
Q_design == <<"d","e","s","i","g","n"," ","a"," ","m","e","n","u">>

\* "login page"
Q_login_page == <<"l","o","g","i","n"," ","p","a","g","e">>

\* "Session, page login"
Q_session_page == <<"S","e","s","s","i","o","n",","," ","p","a","g","e"," ","l","o","g","i","n">>

\* "zzz"
Q_nothing == <<"z","z","z">>

\* ""
Q_empty == <<>>

\* "fix the menu"
Q_fix == <<"f","i","x"," ","t","h","e"," ","m","e","n","u">>

\* "What is a session"
Q_what_is == <<"W","h","a","t"," ","i","s"," ","a"," ","s","e","s","s","i","o","n">>

\* files of the templates directory
File_persona == TemplateFile(<<"p","e","r","s","o","n","a",".","j","s","o","n">>, TRUE, T_persona)

File_chain == TemplateFile(<<"c","h","a","i","n",".","j","s","o","n">>, TRUE, T_chain)

File_recipe == TemplateFile(<<"r","e","c","i","p","e",".","j","s","o","n">>, TRUE, T_recipe)

File_reflection == TemplateFile(<<"r","e","f","l","e","c","t","i","o","n",".","j","s","o","n">>, TRUE, T_reflection)

File_outline == TemplateFile(<<"o","u","t","l","i","n","e",".","j","s","o","n">>, TRUE, T_outline)

File_outline_twin == TemplateFile(<<"o","u","t","l","i","n","e","2",".","j","s","o","n">>, TRUE, T_outline_twin)

File_menu == TemplateFile(<<"m","e","n","u",".","j","s","o","n">>, TRUE, T_menu)

\* a file that is no template, and one whose content is no JSON
File_readme == TemplateFile(<<"R","E","A","D","M","E",".","m","d">>, FALSE, NoTemplate)

File_damaged == TemplateFile(<<"b","r","o","k","e","n",".","j","s","o","n">>, FALSE, NoTemplate)

\* the listings of the templates directory the extension may be started on
TemplateDirs ==
    {<<File_chain, File_menu, File_outline, File_outline_twin, File_persona, File_readme,
       File_recipe, File_reflection>>,
     <<File_chain, File_menu, File_outline, File_recipe, File_reflection>>,
     <<File_outline_twin, File_outline, File_menu>>,
     <<File_menu, File_outline, File_outline_twin>>,
     <<File_persona, File_damaged, File_menu>>,
     <<File_readme>>,
     <<>>}

\* the texts templates are selected for
TemplatePrompts ==
    {Q_explain_login, Q_how_to_create, Q_how_works, Q_refactor, Q_steps_explain, Q_design,
     Q_login_page, Q_session_page, Q_nothing, Q_empty, Q_fix, Q_what_is}


(***************************************************************************)
(* State                                                                   *)
(***************************************************************************)
VARIABLES
    allFolderPaths,      \* AgentExecutor.allFolderPaths, the directory catalog
    mode,                \* CopilotIntegration.mode
    pendingAgentAction,  \* CopilotIntegration.pendingAgentAction
    lmCalls,             \* handleAgentMode calls awaiting the language model
    execs,               \* executeAgentAction calls in progress
    fsFiles,             \* workspace files: path -> content
    fsDirs,              \* workspace directories
    reply,               \* what the handler that ran last returned, if it returned
    nextPid,             \* identity of the next proposal object
    replaced,            \* proposals that were pending when another one was staged
    inferred,            \* the last call of detectActions or findBestMatchingFolder
    sourceText,          \* the content of the file given to the chunker
    parsed,              \* the chunks parseFile returned for it
    srcFiles,            \* the source files of the workspace: path -> state
    now,                 \* the instant the clock showed when it was read last
    indexedRepo,         \* RepoIndexer.indexedRepo
    isIndexing,          \* RepoIndexer.isIndexing
    persisted,           \* the file at RepoIndexer.indexPath
    savedFrom,           \* the index as it was in memory when the file was written last
    arrayHeldBy,         \* the calls whose array is the array indexedRepo.chunks
    rebuilds,            \* indexRepositoryFast calls in progress
    updates,             \* updateFile calls in progress
    backfills,           \* generateEmbeddingsInBackground calls in progress
    activation,          \* how far initialize() of the extension came
    lastStep,            \* the call that ended in the last step, and how it ended
    templates,           \* TemplateManager.templates
    templateEmbeddings,  \* TemplateManager.templateEmbeddings
    templatesLoaded,     \* whether loadTemplates() was called
    selection,           \* the last selection of a template, and the reason given for it
    earlier,             \* the selection before it
    queried              \* the last call of queryRelevantCode: its arguments, the index
                         \* it read and the chunks it returned

agentVars == <<allFolderPaths, mode, pendingAgentAction, lmCalls, execs, fsFiles, fsDirs,
               reply, nextPid, replaced>>

detectVars == <<inferred>>

chunkerVars == <<sourceText, parsed>>

indexerVars == <<srcFiles, now, indexedRepo, isIndexing, persisted, savedFrom, arrayHeldBy,
                 rebuilds, updates, backfills, activation, lastStep>>

templateVars == <<templates, templateEmbeddings, templatesLoaded, selection, earlier>>

queryVars == <<queried>>

vars == <<agentVars, detectVars, chunkerVars, indexerVars, templateVars, queryVars>>

(***************************************************************************)
(* agentMode.ts: executing an action on the workspace                      *)
(***************************************************************************)
\* path.join(this.workspaceRoot, relativePath), as a path below the root
FsPath(relativePath) == JoinWith(NormalizeSegments(PathSegments(relativePath), 1, <<>>), "/")

\* path.dirname; the root is the empty path
Dirname(p) == JoinWith(SubSeq(PathSegments(p), 1, Len(PathSegments(p)) - 1), "/")

\* a path and the directories above it, the root left out
Ancestors(p) == {JoinWith(SubSeq(PathSegments(p), 1, k), "/") : k \in 1..Len(PathSegments(p))}

IsDir(dirs, p) == p = <<>> \/ p \in dirs

\* fs.existsSync
ExistsSync(files, dirs, p) == IsDir(dirs, p) \/ p \in DOMAIN files

\* fs.mkdirSync(dir, {recursive: true}) succeeds unless a file is in the way
CanMkdir(files, dir) == \A a \in Ancestors(dir) : a \notin DOMAIN files

\* fs.writeFileSync succeeds when the parent is a directory and the target is not one
CanWrite(files, dirs, p) == IsDir(dirs, Dirname(p)) /\ ~IsDir(dirs, p)

WriteFile(files, p, content) == [q \in DOMAIN files \cup {p} |-> IF q = p THEN content ELSE files[q]]

RemoveFile(files, p) == [q \in DOMAIN files \ {p} |-> files[q]]

\* the outcome of the part of an action that runs before its first await:
\* the workspace after it, where the action waits (pc) and, when it is settled
\* without waiting on the user or the editor, its result (ok)
Outcome(files, dirs, pc, ok) == [files |-> files, dirs |-> dirs, pc |-> pc, ok |-> ok]

\* createFile up to the overwrite prompt, or to openTextDocument
createFile(files, dirs, relativePath, content) ==
    LET fullPath == FsPath(relativePath)
        dir == Dirname(fullPath)
        made == IF ExistsSync(files, dirs, dir) THEN dirs ELSE dirs \cup Ancestors(dir)
    IN  IF ~ExistsSync(files, dirs, dir) /\ ~CanMkdir(files, dir)
        THEN Outcome(files, dirs, "settled", FALSE)
        ELSE IF ExistsSync(files, made, fullPath)
             THEN Outcome(files, made, "confirm_overwrite", FALSE)
             ELSE IF CanWrite(files, made, fullPath)
                  THEN Outcome(WriteFile(files, fullPath, content), made, "open", FALSE)
                  ELSE Outcome(files, made, "settled", FALSE)

\* modifyFile up to openTextDocument
modifyFile(files, dirs, relativePath, content) ==
    LET fullPath == FsPath(relativePath)
    IN  IF ~ExistsSync(files, dirs, fullPath) THEN Outcome(files, dirs, "settled", FALSE)
        ELSE IF CanWrite(files, dirs, fullPath)
             THEN Outcome(WriteFile(files, fullPath, content), dirs, "open", FALSE)
             ELSE Outcome(files, dirs, "settled", FALSE)

\* deleteFile up to its confirmation prompt
deleteFile(files, dirs, relativePath) ==
    IF ~ExistsSync(files, dirs, FsPath(relativePath))
    THEN Outcome(files, dirs, "settled", FALSE)
    ELSE Outcome(files, dirs, "confirm_delete", FALSE)

\* executeAction up to the first await of the action
executeAction(files, dirs, action, content) ==
    CASE action.type = "create_file" -> createFile(files, dirs, action.filePath, content)
      [] action.type = "modify_file" -> modifyFile(files, dirs, action.filePath, content)
      [] action.type = "delete_file" -> deleteFile(files, dirs, action.filePath)
      [] action.type = "run_command" -> Outcome(files, dirs, "settled", TRUE)
      [] OTHER -> Outcome(files, dirs, "settled", FALSE)

\* createFile when only the answer No keeps the file
AfterOverwritePromptUnlessNo(files, dirs, relativePath, content, answer) ==
    IF answer = "No" THEN Outcome(files, dirs, "settled", FALSE)
    ELSE IF CanWrite(files, dirs, FsPath(relativePath))
         THEN Outcome(WriteFile(files, FsPath(relativePath), content), dirs, "open", FALSE)
         ELSE Outcome(files, dirs, "settled", FALSE)

\* createFile after the overwrite prompt was answered
AfterOverwritePrompt(files, dirs, relativePath, content, answer) ==
    IF answer # "Yes" THEN Outcome(files, dirs, "settled", FALSE)
    ELSE IF CanWrite(files, dirs, FsPath(relativePath))
         THEN Outcome(WriteFile(files, FsPath(relativePath), content), dirs, "open", FALSE)
         ELSE Outcome(files, dirs, "settled", FALSE)

\* deleteFile after its prompt was answered
AfterDeletePrompt(files, dirs, relativePath, answer) ==
    IF answer # "Delete" THEN Outcome(files, dirs, "settled", FALSE)
    ELSE IF FsPath(relativePath) \in DOMAIN files
         THEN Outcome(RemoveFile(files, FsPath(relativePath)), dirs, "settled", TRUE)
         ELSE Outcome(files, dirs, "settled", FALSE)

(***************************************************************************)
(* copilotIntegration.ts: staging, approving and rejecting a proposal      *)
(***************************************************************************)
NoReply == [op |-> "none", kind |-> "none", results |-> <<>>]

Reply(op, kind) == [op |-> op, kind |-> kind, results |-> <<>>]

\* the catalogs a session may have scanned
Catalogs == {scanFolderStructure(ws) : ws \in Workspaces}

\* detectActions on the catalog of the session, for every text a user may send
DetectedActions == [c \in Catalogs |-> [p \in Prompts |-> detectActions(c, p)]]

\* the call of line 177
Detected(prompt) == DetectedActions[allFolderPaths][prompt]

IdleExec ==
    [pc |-> "idle", pid |-> 0, actions |-> <<>>, content |-> "", idx |-> 0,
     results |-> <<>>, ok |-> FALSE]

\* the state after construction, in a workspace that holds the files pre
InitSession(ws, pre, startMode) ==
    /\ allFolderPaths = scanFolderStructure(ws)
    /\ fsDirs = UNION {Ancestors(ws[k]) : k \in 1..Len(ws)}
    /\ fsFiles = [p \in {q \in pre : IsDir(Range(ws), Dirname(q))} |-> OriginalContent]
    /\ mode = startMode
    /\ pendingAgentAction = NULL
    /\ lmCalls = {}
    /\ execs = [e \in ExecCalls |-> IdleExec]
    /\ reply = NoReply
    /\ nextPid = 1
    /\ replaced = {}

InitAgent ==
    \E ws \in Workspaces, pre \in InitialFileSets, m \in {"chat", "agent"} :
        InitSession(ws, pre, m)

\* switchMode
SwitchMode(newMode) ==
    /\ mode' = newMode
    /\ reply' = NoReply
    /\ UNCHANGED <<allFolderPaths, pendingAgentAction, lmCalls, execs, fsFiles, fsDirs,
                   nextPid, replaced>>

\* sendMessage that drops what is pending when it stages nothing
SendChatClears(prompt) ==
    /\ mode = "chat" \/ Len(Detected(prompt)) = 0
    /\ reply' = Reply("send", "chat")
    /\ pendingAgentAction' = NULL
    /\ UNCHANGED <<allFolderPaths, mode, lmCalls, execs, fsFiles, fsDirs, nextPid, replaced>>

\* sendMessage in chat mode, or in agent mode with no action detected: the text goes
\* to the language model and nothing is staged
SendChat(prompt) ==
    /\ mode = "chat" \/ Len(Detected(prompt)) = 0
    /\ reply' = Reply("send", "chat")
    /\ UNCHANGED <<allFolderPaths, mode, pendingAgentAction, lmCalls, execs, fsFiles,
                   fsDirs, nextPid, replaced>>

\* sendMessage in agent mode, handleAgentMode up to the call of the language model:
\* the detected actions wait for the generated content
SendAgent(prompt) ==
    /\ mode = "agent"
    /\ Len(Detected(prompt)) > 0
    /\ nextPid <= MaxProposals
    /\ lmCalls' = lmCalls \cup {[pid |-> nextPid, actions |-> Detected(prompt)]}
    /\ nextPid' = nextPid + 1
    /\ reply' = NoReply
    /\ UNCHANGED <<allFolderPaths, mode, pendingAgentAction, execs, fsFiles, fsDirs,
                   replaced>>

\* the assignment of line 192: what is pending once a proposal is staged
StagePendingKeepFirst(old, new) == IF old = NULL THEN new ELSE old

StagePending(old, new) == new

\* handleAgentMode after the language model answered: the proposal is staged
LmAnswer(call, content) ==
    /\ call \in lmCalls
    /\ lmCalls' = lmCalls \ {call}
    /\ pendingAgentAction' =
           StagePending(pendingAgentAction,
                        [actions |-> call.actions, content |-> content, pid |-> call.pid])
    /\ replaced' = IF pendingAgentAction = NULL
                   THEN replaced
                   ELSE replaced \cup {pendingAgentAction.pid}
    /\ reply' = Reply("send", "proposed")
    /\ UNCHANGED <<allFolderPaths, mode, execs, fsFiles, fsDirs, nextPid>>

\* handleAgentMode when the language model call throws: nothing is staged
LmError(call) ==
    /\ call \in lmCalls
    /\ lmCalls' = lmCalls \ {call}
    /\ reply' = Reply("send", "error")
    /\ UNCHANGED <<allFolderPaths, mode, pendingAgentAction, execs, fsFiles, fsDirs,
                   nextPid, replaced>>

\* what executeAgentAction leaves pending when its loop is over (line 309)
AfterExecuteKeep(pending) == pending

AfterExecute(pending) == NULL

\* executeAgentAction when its loop ends at the first action that failed
ContinueUntilFailure(e, x, idx, results, files, dirs) ==
    IF idx <= Len(x.actions) /\ (results = <<>> \/ results[Len(results)])
    THEN LET o == executeAction(files, dirs, x.actions[idx], x.content)
         IN  /\ execs' = [execs EXCEPT ![e] =
                              [x EXCEPT !.pc = o.pc, !.idx = idx, !.results = results, !.ok = o.ok]]
             /\ fsFiles' = o.files
             /\ fsDirs' = o.dirs
             /\ reply' = NoReply
             /\ UNCHANGED pendingAgentAction
    ELSE /\ execs' = [execs EXCEPT ![e] = IdleExec]
         /\ pendingAgentAction' = AfterExecute(pendingAgentAction)
         /\ reply' = [op |-> "execute", kind |-> "executed", results |-> results]
         /\ fsFiles' = files
         /\ fsDirs' = dirs

\* executeAgentAction from the start of action idx of call e to the next await, or
\* to its return when no action is left
Continue(e, x, idx, results, files, dirs) ==
    IF idx <= Len(x.actions)
    THEN LET o == executeAction(files, dirs, x.actions[idx], x.content)
         IN  /\ execs' = [execs EXCEPT ![e] =
                              [x EXCEPT !.pc = o.pc, !.idx = idx, !.results = results, !.ok = o.ok]]
             /\ fsFiles' = o.files
             /\ fsDirs' = o.dirs
             /\ reply' = NoReply
             /\ UNCHANGED pendingAgentAction
    ELSE /\ execs' = [execs EXCEPT ![e] = IdleExec]
         /\ pendingAgentAction' = AfterExecute(pendingAgentAction)
         /\ reply' = [op |-> "execute", kind |-> "executed", results |-> results]
         /\ fsFiles' = files
         /\ fsDirs' = dirs

\* executeAgentAction is called (the user clicked Apply)
Approve(e) ==
    /\ execs[e].pc = "idle"
    /\ \A d \in ExecCalls : d < e => execs[d].pc # "idle"
    /\ IF pendingAgentAction = NULL
       THEN /\ reply' = Reply("execute", "no_pending")
            /\ UNCHANGED <<pendingAgentAction, execs, fsFiles, fsDirs>>
       ELSE Continue(e, [IdleExec EXCEPT !.pid = pendingAgentAction.pid,
                                         !.actions = pendingAgentAction.actions,
                                         !.content = pendingAgentAction.content],
                     1, <<>>, fsFiles, fsDirs)
    /\ UNCHANGED <<allFolderPaths, mode, lmCalls, nextPid, replaced>>

\* the user answers the overwrite or the delete prompt of the action in progress
ExecAnswer(e, answer) ==
    /\ execs[e].pc \in {"confirm_overwrite", "confirm_delete"}
    /\ LET x == execs[e]
           a == x.actions[x.idx]
           o == IF x.pc = "confirm_overwrite"
                THEN AfterOverwritePrompt(fsFiles, fsDirs, a.filePath, x.content, answer)
                ELSE AfterDeletePrompt(fsFiles, fsDirs, a.filePath, answer)
       IN  /\ execs' = [execs EXCEPT ![e] = [x EXCEPT !.pc = o.pc, !.ok = o.ok]]
           /\ fsFiles' = o.files
           /\ fsDirs' = o.dirs
    /\ reply' = NoReply
    /\ UNCHANGED <<allFolderPaths, mode, pendingAgentAction, lmCalls, nextPid, replaced>>

\* openTextDocument and showTextDocument end: the action succeeded, or, when they
\* throw, executeAction catches the error and reports a failure
ExecOpened(e, opened) ==
    /\ execs[e].pc = "open"
    /\ Continue(e, execs[e], execs[e].idx + 1, Append(execs[e].results, opened), fsFiles, fsDirs)
    /\ UNCHANGED <<allFolderPaths, mode, lmCalls, nextPid, replaced>>

\* an action that ended without waiting on the user or the editor is resumed
ExecSettled(e) ==
    /\ execs[e].pc = "settled"
    /\ Continue(e, execs[e], execs[e].idx + 1, Append(execs[e].results, execs[e].ok),
                fsFiles, fsDirs)
    /\ UNCHANGED <<allFolderPaths, mode, lmCalls, nextPid, replaced>>

\* what rejectAgentAction leaves pending (line 330)
AfterRejectKeep(pending) == pending

AfterReject(pending) == NULL

\* rejectAgentAction (the user clicked Reject)
Reject ==
    /\ IF pendingAgentAction = NULL
       THEN /\ reply' = Reply("reject", "no_pending")
            /\ UNCHANGED pendingAgentAction
       ELSE /\ reply' = Reply("reject", "rejected")
            /\ pendingAgentAction' = AfterReject(pendingAgentAction)
    /\ UNCHANGED <<allFolderPaths, mode, lmCalls, execs, fsFiles, fsDirs, nextPid, replaced>>

(***************************************************************************)
(* agentMode.ts: action detection and folder resolution on their own       *)
(***************************************************************************)
NoCall == [op |-> "none"]

InitDetect ==
    /\ \E ws \in InferenceWorkspaces : InitSession(ws, {}, "agent")
    /\ inferred = NoCall

\* detectActions(prompt)
Detect(prompt) ==
    /\ inferred' = [op |-> "detectActions", input |-> prompt,
                    output |-> detectActions(allFolderPaths, prompt)]
    /\ UNCHANGED agentVars

\* findBestMatchingFolder(folderHint)
Resolve(folderHint) ==
    /\ inferred' = [op |-> "findBestMatchingFolder", input |-> folderHint,
                    output |-> findBestMatchingFolder(allFolderPaths, folderHint)]
    /\ UNCHANGED agentVars

(***************************************************************************)
(* repoIndexer.ts: the chunker applied to one file                         *)
(***************************************************************************)
NotParsed == <<[parsed |-> FALSE]>>

ChunkerIdle == sourceText = <<>> /\ parsed = NotParsed

InitChunker ==
    /\ \E shape \in FileShapes : sourceText = FileText(shape)
    /\ parsed = NotParsed

\* parseFile(filePath, workspaceRoot)
ParseFile ==
    /\ parsed = NotParsed
    /\ parsed' = parseFile(F_a, sourceText)
    /\ UNCHANGED sourceText

(***************************************************************************)
(* repoIndexer.ts: the indexer as a state machine                          *)
(***************************************************************************)
\* the index as it was in memory, without the references of running calls
Snapshot(repo) ==
    [repo EXCEPT !.chunks = [k \in 1..Len(@) |-> [@[k] EXCEPT !.refs = {}]]]

IndexerIdle ==
    /\ srcFiles = [f \in {F_a, F_b} |-> IF f = F_a THEN FileMissing ELSE FileWith(TextClass)]
    /\ now = 1
    /\ indexedRepo = NULL
    /\ isIndexing = FALSE
    /\ persisted = NoDocument
    /\ savedFrom = NULL
    /\ arrayHeldBy = {}
    /\ rebuilds = [r \in RebuildCalls |-> IdleCall]
    /\ updates = [u \in UpdateCalls |-> IdleCall]
    /\ backfills = [b \in BackfillCalls |-> IdleCall]
    /\ activation = "initializing"
    /\ lastStep = NoStep

\* a fresh installation in a workspace
InitIndexer ==
    /\ srcFiles \in [{F_a, F_b} -> UNION {FileStates[f] : f \in {F_a, F_b}}]
    /\ \A f \in {F_a, F_b} : srcFiles[f] \in FileStates[f]
    /\ now = 1
    /\ indexedRepo = NULL
    /\ isIndexing = FALSE
    /\ persisted = NoDocument
    /\ savedFrom = NULL
    /\ arrayHeldBy = {}
    /\ rebuilds = [r \in RebuildCalls |-> IdleCall]
    /\ updates = [u \in UpdateCalls |-> IdleCall]
    /\ backfills = [b \in BackfillCalls |-> IdleCall]
    /\ activation = "initializing"
    /\ lastStep = NoStep

\* a fresh installation in a workspace that has been built: dist/c.ts lies
\* beside the sources
InitWatched ==
    /\ srcFiles \in [{F_a, F_b, F_dist} -> {FileMissing, FileWith(TextClass), FileWith(TextPlainFunction)}]
    /\ \A f \in {F_a, F_b} : srcFiles[f] \in FileStates[f]
    /\ srcFiles[F_dist] = FileWith(TextPlainFunction)
    /\ now = 1
    /\ indexedRepo = NULL
    /\ isIndexing = FALSE
    /\ persisted = NoDocument
    /\ savedFrom = NULL
    /\ arrayHeldBy = {}
    /\ rebuilds = [r \in RebuildCalls |-> IdleCall]
    /\ updates = [u \in UpdateCalls |-> IdleCall]
    /\ backfills = [b \in BackfillCalls |-> IdleCall]
    /\ activation = "initializing"
    /\ lastStep = NoStep

\* the file at indexPath and its origin after saveIndex on the index repo
Save(repo) ==
    /\ persisted' = saveIndex(repo, persisted)
    /\ savedFrom' = IF repo = NULL THEN savedFrom ELSE Snapshot(repo)

\* indexRepositoryFast up to its first await; listed tells whether the walk of
\* getAllCodeFiles returned or threw
IndexRepositoryFast(r, listed) ==
    /\ LowestIdle(rebuilds, r)
    /\ IF RebuildRejected(isIndexing)
       THEN /\ lastStep' = Step("indexRepositoryFast", "rejected", r)
            /\ UNCHANGED <<isIndexing, rebuilds>>
       ELSE /\ isIndexing' = TRUE
            /\ rebuilds' = [rebuilds EXCEPT ![r] =
                   IF listed
                   THEN [pc |-> "parsing",
                         files |-> Take(getAllCodeFiles(srcFiles), maxFiles),
                         i |-> 0, chunks |-> <<>>, result |-> [ok |-> FALSE, chunks |-> <<>>]]
                   ELSE [pc |-> "failed"]]
            /\ lastStep' = NoStep
    /\ UNCHANGED <<srcFiles, now, indexedRepo, persisted, savedFrom, arrayHeldBy, updates,
                   backfills, activation>>

\* the loop over filesToIndex when a file that cannot be parsed ends the rebuild
RebuildResumeAllOrNothing(r, t) ==
    LET x == rebuilds[r]
        chunks == IF x.i > 0 /\ x.result.ok THEN x.chunks \o x.result.chunks ELSE x.chunks
    IN  /\ x.pc = "parsing"
        /\ IF x.i > 0 /\ ~x.result.ok
           THEN /\ rebuilds' = [rebuilds EXCEPT ![r] = [pc |-> "failed"]]
                /\ lastStep' = NoStep
                /\ UNCHANGED <<now, indexedRepo, persisted, savedFrom, arrayHeldBy, activation>>
           ELSE IF x.i < Len(x.files)
           THEN /\ rebuilds' = [rebuilds EXCEPT ![r] =
                       [x EXCEPT !.i = x.i + 1, !.chunks = chunks,
                                 !.result = TryParse(srcFiles, x.files[x.i + 1], Root)]]
                /\ lastStep' = NoStep
                /\ UNCHANGED <<now, indexedRepo, persisted, savedFrom, arrayHeldBy, activation>>
           ELSE /\ t >= now
                /\ now' = t
                /\ indexedRepo' = [chunks |-> chunks, lastIndexed |-> DateValue(t),
                                   workspaceRoot |-> Root, hasEmbeddings |-> FALSE]
                /\ arrayHeldBy' = {Proc("rebuild", r)}
                /\ Save(indexedRepo')
                /\ rebuilds' = [rebuilds EXCEPT ![r] = [pc |-> "saved"]]
                /\ lastStep' = NoStep
        /\ UNCHANGED <<srcFiles, isIndexing, updates, backfills, activation>>

\* the loop over filesToIndex between two awaits: the chunks of the file parsed
\* last are pushed, then the next file is parsed, or the index is replaced, with
\* the instant t that the clock shows, and saved
RebuildResume(r, t) ==
    LET x == rebuilds[r]
        chunks == IF x.i > 0 /\ x.result.ok THEN x.chunks \o x.result.chunks ELSE x.chunks
    IN  /\ x.pc = "parsing"
        /\ IF x.i < Len(x.files)
           THEN /\ rebuilds' = [rebuilds EXCEPT ![r] =
                       [x EXCEPT !.i = x.i + 1, !.chunks = chunks,
                                 !.result = TryParse(srcFiles, x.files[x.i + 1], Root)]]
                /\ lastStep' = NoStep
                /\ UNCHANGED <<now, indexedRepo, persisted, savedFrom, arrayHeldBy, activation>>
           ELSE /\ t >= now
                /\ now' = t
                /\ indexedRepo' = [chunks |-> chunks, lastIndexed |-> DateValue(t),
                                   workspaceRoot |-> Root, hasEmbeddings |-> FALSE]
                /\ arrayHeldBy' = {Proc("rebuild", r)}
                /\ Save(indexedRepo')
                /\ rebuilds' = [rebuilds EXCEPT ![r] = [pc |-> "saved"]]
                /\ lastStep' = NoStep
        /\ UNCHANGED <<srcFiles, isIndexing, updates, backfills, activation>>

\* after await saveIndex: generateEmbeddingsInBackground(chunks) runs up to its
\* question, the flag is cleared and the call returns
RebuildReturn(r) ==
    LET free == {b \in BackfillCalls : backfills[b].pc = "idle"}
        to == IF free = {} THEN {}
              ELSE {Proc("backfill", CHOOSE b \in free : \A c \in free : b <= c)}
    IN  /\ rebuilds[r].pc = "saved"
        /\ backfills' = [b \in BackfillCalls |->
                            IF Proc("backfill", b) \in to THEN [pc |-> "asked"]
                            ELSE backfills[b]]
        /\ indexedRepo' = RetagRepo(indexedRepo, Proc("rebuild", r), to)
        /\ arrayHeldBy' = RetagArray(arrayHeldBy, Proc("rebuild", r), to)
        /\ isIndexing' = FALSE
        /\ rebuilds' = [rebuilds EXCEPT ![r] = IdleCall]
        /\ lastStep' = Step("indexRepositoryFast", "returned", r)
        /\ UNCHANGED <<srcFiles, now, persisted, savedFrom, updates, activation>>

\* the walk threw and nothing clears the flag
RebuildThrowKeepsFlag(r) ==
    /\ rebuilds[r].pc = "failed"
    /\ rebuilds' = [rebuilds EXCEPT ![r] = IdleCall]
    /\ lastStep' = Step("indexRepositoryFast", "thrown", r)
    /\ UNCHANGED <<srcFiles, now, indexedRepo, isIndexing, persisted, savedFrom, arrayHeldBy,
                   updates, backfills, activation>>

\* the walk threw: the catch reports and rethrows, the finally clears the flag
RebuildThrow(r) ==
    /\ rebuilds[r].pc = "failed"
    /\ isIndexing' = FALSE
    /\ rebuilds' = [rebuilds EXCEPT ![r] = IdleCall]
    /\ lastStep' = Step("indexRepositoryFast", "thrown", r)
    /\ UNCHANGED <<srcFiles, now, indexedRepo, persisted, savedFrom, arrayHeldBy, updates,
                   backfills, activation>>

\* the answer to the question of generateEmbeddingsInBackground; with Yes the
\* loop takes its batch of the array and asks the provider
BackfillAnswer(b, choice) ==
    LET me == Proc("backfill", b)
    IN  /\ backfills[b].pc = "asked"
        /\ IF choice = "Yes"
           THEN /\ backfills' = [backfills EXCEPT ![b] = [pc |-> "embedding"]]
                /\ indexedRepo' =
                       IF me \in arrayHeldBy
                       THEN [indexedRepo EXCEPT !.chunks = HeldBy(@, {me})]
                       ELSE indexedRepo
                /\ lastStep' = NoStep
           ELSE /\ backfills' = [backfills EXCEPT ![b] = IdleCall]
                /\ indexedRepo' = RetagRepo(indexedRepo, me, {})
                /\ lastStep' = NoStep
        /\ arrayHeldBy' = arrayHeldBy \ {me}
        /\ UNCHANGED <<srcFiles, now, isIndexing, persisted, savedFrom, rebuilds, updates, activation>>

\* the provider answers the batch, or fails, which the loop only logs; then the
\* index is flagged and saved
BackfillEmbedded(b, ok) ==
    LET me == Proc("backfill", b)
        embedded == IF indexedRepo = NULL THEN indexedRepo
                    ELSE IF ok THEN [indexedRepo EXCEPT !.chunks = Embed(@, me)]
                    ELSE RetagRepo(indexedRepo, me, {})
    IN  /\ backfills[b].pc = "embedding"
        /\ indexedRepo' = IF embedded = NULL THEN embedded
                          ELSE [embedded EXCEPT !.hasEmbeddings = TRUE]
        /\ Save(indexedRepo')
        /\ backfills' = [backfills EXCEPT ![b] = [pc |-> "saved"]]
        /\ lastStep' = NoStep
        /\ UNCHANGED <<srcFiles, now, isIndexing, arrayHeldBy, rebuilds, updates, activation>>

BackfillReturn(b) ==
    /\ backfills[b].pc = "saved"
    /\ backfills' = [backfills EXCEPT ![b] = IdleCall]
    /\ lastStep' = NoStep
    /\ UNCHANGED <<srcFiles, now, indexedRepo, isIndexing, persisted, savedFrom, arrayHeldBy,
                   rebuilds, updates, activation>>

\* the file watcher reports a file and updateFile runs up to its first await: the
\* chunks of the file are filtered out of the index and the file is read and
\* parsed
UpdateFile(u, filePath) ==
    /\ activation = "watching"
    /\ LowestIdle(updates, u)
    /\ IF indexedRepo = NULL
       THEN /\ lastStep' = Step("updateFile", "noindex", u)
            /\ UNCHANGED <<indexedRepo, arrayHeldBy, updates>>
       ELSE LET relativePath == RelativePath(Root, filePath)
            IN  /\ indexedRepo' = [indexedRepo EXCEPT !.chunks =
                       SelectSeq(HeldBy(@, arrayHeldBy),
                                 LAMBDA chunk : KeepsChunk(chunk, relativePath))]
                /\ arrayHeldBy' = {}
                /\ updates' = [updates EXCEPT ![u] =
                       [pc |-> "parsed", filePath |-> filePath,
                        result |-> TryParse(srcFiles, filePath, Root)]]
                /\ lastStep' = NoStep
    /\ UNCHANGED <<srcFiles, now, isIndexing, persisted, savedFrom, rebuilds, backfills, activation>>

\* after await parseFile, when the catch empties the index
UpdateResumeDropsIndex(u) ==
    LET x == updates[u]
    IN  /\ x.pc = "parsed"
        /\ IF x.result.ok
           THEN /\ indexedRepo' = [indexedRepo EXCEPT !.chunks =
                       @ \o HeldBy(x.result.chunks, {Proc("update", u)})]
                /\ Save(indexedRepo')
                /\ updates' = [updates EXCEPT ![u] = [x EXCEPT !.pc = "saved"]]
                /\ lastStep' = NoStep
           ELSE /\ updates' = [updates EXCEPT ![u] = IdleCall]
                /\ lastStep' = Step("updateFile", "caught", u)
                /\ indexedRepo' = [indexedRepo EXCEPT !.chunks = <<>>]
                /\ UNCHANGED <<persisted, savedFrom>>
        /\ UNCHANGED <<srcFiles, now, isIndexing, arrayHeldBy, rebuilds, backfills, activation>>

\* after await parseFile: the new chunks are pushed and the index is saved, or
\* the error of parseFile is caught and logged
UpdateResume(u) ==
    LET x == updates[u]
    IN  /\ x.pc = "parsed"
        /\ IF x.result.ok
           THEN /\ indexedRepo' = [indexedRepo EXCEPT !.chunks =
                       @ \o HeldBy(x.result.chunks, {Proc("update", u)})]
                /\ Save(indexedRepo')
                /\ updates' = [updates EXCEPT ![u] = [x EXCEPT !.pc = "saved"]]
                /\ lastStep' = NoStep
           ELSE /\ updates' = [updates EXCEPT ![u] = IdleCall]
                /\ lastStep' = Step("updateFile", "caught", u)
                /\ UNCHANGED <<indexedRepo, persisted, savedFrom>>
        /\ UNCHANGED <<srcFiles, now, isIndexing, arrayHeldBy, rebuilds, backfills, activation>>

\* after await saveIndex: the provider is asked for the new chunks if the index
\* has embeddings, otherwise the call returns
UpdateSaved(u) ==
    LET x == updates[u]
    IN  /\ x.pc = "saved"
        /\ IF indexedRepo.hasEmbeddings /\ Len(x.result.chunks) > 0
           THEN /\ updates' = [updates EXCEPT ![u] = [x EXCEPT !.pc = "embedding"]]
                /\ lastStep' = NoStep
                /\ UNCHANGED indexedRepo
           ELSE /\ updates' = [updates EXCEPT ![u] = IdleCall]
                /\ indexedRepo' = RetagRepo(indexedRepo, Proc("update", u), {})
                /\ lastStep' = Step("updateFile", "returned", u)
        /\ UNCHANGED <<srcFiles, now, isIndexing, persisted, savedFrom, arrayHeldBy, rebuilds,
                       backfills, activation>>

\* the provider answers and the new chunks get their embeddings, or it fails and
\* the error is caught
UpdateEmbedded(u, ok) ==
    LET x == updates[u]
    IN  /\ x.pc = "embedding"
        /\ IF ok
           THEN /\ indexedRepo' = [indexedRepo EXCEPT !.chunks = Embed(@, Proc("update", u))]
                /\ Save(indexedRepo')
                /\ updates' = [updates EXCEPT ![u] = [x EXCEPT !.pc = "embedded"]]
                /\ lastStep' = NoStep
           ELSE /\ indexedRepo' = RetagRepo(indexedRepo, Proc("update", u), {})
                /\ updates' = [updates EXCEPT ![u] = IdleCall]
                /\ lastStep' = Step("updateFile", "caught", u)
                /\ UNCHANGED <<persisted, savedFrom>>
        /\ UNCHANGED <<srcFiles, now, isIndexing, arrayHeldBy, rebuilds, backfills, activation>>

UpdateReturn(u) ==
    /\ updates[u].pc = "embedded"
    /\ updates' = [updates EXCEPT ![u] = IdleCall]
    /\ lastStep' = Step("updateFile", "returned", u)
    /\ UNCHANGED <<srcFiles, now, indexedRepo, isIndexing, persisted, savedFrom, arrayHeldBy,
                   rebuilds, backfills, activation>>

\* initialize() of the extension comes to loadIndex, then sets up the file watcher
LoadIndex ==
    /\ activation = "initializing"
    /\ activation' = "watching"
    /\ IF persisted.kind = "document"
       THEN /\ indexedRepo' = ParseDocument(persisted.json)
            /\ arrayHeldBy' = {}
            /\ lastStep' = Step("loadIndex", "true", 0)
       ELSE /\ lastStep' = Step("loadIndex", "false", 0)
            /\ UNCHANGED <<indexedRepo, arrayHeldBy>>
    /\ UNCHANGED <<srcFiles, now, isIndexing, persisted, savedFrom, rebuilds, updates,
                   backfills>>

\* the extension host starts again: what was in memory is gone, the document
\* stays
Restart ==
    /\ indexedRepo' = NULL
    /\ isIndexing' = FALSE
    /\ arrayHeldBy' = {}
    /\ rebuilds' = [r \in RebuildCalls |-> IdleCall]
    /\ updates' = [u \in UpdateCalls |-> IdleCall]
    /\ backfills' = [b \in BackfillCalls |-> IdleCall]
    /\ activation' = "initializing"
    /\ lastStep' = NoStep
    /\ UNCHANGED <<srcFiles, now, persisted, savedFrom>>

\* the user or a tool writes, protects or deletes a source file
EditFile(f, state) ==
    /\ srcFiles[f] # state
    /\ srcFiles' = [srcFiles EXCEPT ![f] = state]
    /\ lastStep' = NoStep
    /\ UNCHANGED <<now, indexedRepo, isIndexing, persisted, savedFrom, arrayHeldBy, rebuilds,
                   updates, backfills, activation>>

NoCallRuns ==
    /\ \A r \in RebuildCalls : rebuilds[r].pc = "idle"
    /\ \A u \in UpdateCalls : updates[u].pc = "idle"
    /\ \A b \in BackfillCalls : backfills[b].pc = "idle"

\* the document is deleted or damaged outside the extension, while no call of
\* the indexer is in progress
DocumentChanged(document) ==
    /\ NoCallRuns
    /\ persisted # document
    /\ persisted' = document
    /\ savedFrom' = NULL
    /\ lastStep' = NoStep
    /\ UNCHANGED <<srcFiles, now, indexedRepo, isIndexing, arrayHeldBy, rebuilds, updates,
                   backfills, activation>>

(***************************************************************************)
(* repoIndexer.ts: a query of the index                                    *)
(***************************************************************************)
NoQuery == [asked |-> FALSE]

QueryIdle == queried = NoQuery

\* queryRelevantCode(query, topK) on the index as it is in memory; the provider
\* of the query's embedding is the local one, which answers at once.  What is
\* kept of the call leaves out which calls refer to the chunks.
QueryRelevantCode(query, topK) ==
    /\ LET repo == IF indexedRepo = NULL THEN NULL ELSE Snapshot(indexedRepo)
           settled == Settle(repo, query, topK)
       IN  queried' = [asked |-> TRUE, by |-> "queryRelevantCode", query |-> query,
                       topK |-> topK, repo |-> repo, ok |-> settled.ok,
                       error |-> settled.error, result |-> settled.result]
    /\ lastStep' = NoStep
    /\ UNCHANGED <<srcFiles, now, indexedRepo, isIndexing, persisted, savedFrom, arrayHeldBy,
                   rebuilds, updates, backfills, activation>>

\* enrichPrompt(userPrompt) on a prompt that is not enriched yet and names no
\* file of the workspace, from getRelevantCodeContext on: which of the chunks the
\* filter on folder and extension keeps is left open, slice(0, 1) takes the
\* first it keeps
EnrichPrompt(userPrompt) ==
    /\ LET repo == IF indexedRepo = NULL THEN NULL ELSE Snapshot(indexedRepo)
           settled == CatchAndLog(Settle(repo, userPrompt, ContextChunks))
       IN  \E codeContext \in {<<>>} \cup {<<settled.result[k]>> : k \in 1..Len(settled.result)} :
               queried' = [asked |-> TRUE, by |-> "enrichPrompt", query |-> userPrompt,
                           topK |-> ContextChunks, repo |-> repo, ok |-> settled.ok,
                           error |-> settled.error, result |-> codeContext]
    /\ lastStep' = NoStep
    /\ UNCHANGED <<srcFiles, now, indexedRepo, isIndexing, persisted, savedFrom, arrayHeldBy,
                   rebuilds, updates, backfills, activation>>

(***************************************************************************)
(* templateManager.ts: loading the catalog and selecting from it           *)
(***************************************************************************)
NoSelection == [input |-> NoString, how |-> [by |-> "never"], reason |-> NoString]

TemplatesIdle ==
    /\ templates = <<>>
    /\ templateEmbeddings = <<>>
    /\ templatesLoaded = FALSE
    /\ selection = NoSelection
    /\ earlier = NoSelection

\* loadTemplates(), which initialize() awaits once
LoadTemplates(files) ==
    /\ ~templatesLoaded
    /\ LET read == ReadTemplates(files, 1, templates)
       IN  /\ templates' = read.templates
           /\ templateEmbeddings' =
                  IF read.ok THEN generateTemplateEmbeddings(read.templates)
                  ELSE templateEmbeddings
    /\ templatesLoaded' = TRUE
    /\ UNCHANGED <<selection, earlier>>

\* enrichPrompt: selectBestTemplate(cleanPrompt), then
\* getTemplateSelectionReason(cleanPrompt, template); the commands that lead
\* to it run after activate(), in which loadTemplates() read the directory
SelectAndExplain(prompt) ==
    /\ templatesLoaded
    /\ LET how == SelectTemplate(templates, templateEmbeddings, prompt)
       IN  selection' = [input |-> prompt, how |-> how,
                         reason |-> getTemplateSelectionReason(prompt, how.template)]
    /\ earlier' = selection
    /\ UNCHANGED <<templates, templateEmbeddings, templatesLoaded>>

(***************************************************************************)
(* Specifications                                                          *)
(***************************************************************************)
DetectIdle == inferred = NoCall

AgentIdle == InitSession(WorkspaceEmpty, {}, "chat")

InitSpecAgent == InitAgent /\ DetectIdle /\ ChunkerIdle /\ IndexerIdle /\ TemplatesIdle /\ QueryIdle

\* a step of the session leaves the rest alone
OnlyAgent == UNCHANGED <<detectVars, chunkerVars, indexerVars, templateVars, queryVars>>

NextAgent ==
    \/ \E m \in {"chat", "agent"} : SwitchMode(m) /\ OnlyAgent
    \/ \E p \in Prompts : SendChat(p) /\ OnlyAgent
    \/ \E p \in Prompts : SendAgent(p) /\ OnlyAgent
    \/ \E call \in lmCalls, c \in Contents : LmAnswer(call, c) /\ OnlyAgent
    \/ \E call \in lmCalls : LmError(call) /\ OnlyAgent
    \/ \E e \in ExecCalls : Approve(e) /\ OnlyAgent
    \/ \E e \in ExecCalls, a \in {"Yes", "No", "Delete", "Cancel"} :
           ExecAnswer(e, a) /\ OnlyAgent
    \/ \E e \in ExecCalls, opened \in BOOLEAN : ExecOpened(e, opened) /\ OnlyAgent
    \/ \E e \in ExecCalls : ExecSettled(e) /\ OnlyAgent
    \/ Reject /\ OnlyAgent

\* a chat session with agent mode
SpecAgent == InitSpecAgent /\ [][NextAgent]_vars

\* a session in agent mode in which a proposal of several actions is pending
InitExecute ==
    \E ws \in {WorkspaceFull, WorkspaceFlat}, pre \in InitialFileSets, list \in ActionLists,
       c \in Contents :
        /\ allFolderPaths = scanFolderStructure(ws)
        /\ fsDirs = UNION {Ancestors(ws[k]) : k \in 1..Len(ws)}
        /\ fsFiles = [p \in {q \in pre : IsDir(Range(ws), Dirname(q))} |-> OriginalContent]
        /\ mode = "agent"
        /\ pendingAgentAction = [actions |-> list, content |-> c, pid |-> 1]
        /\ lmCalls = {}
        /\ execs = [e \in ExecCalls |-> IdleExec]
        /\ reply = Reply("send", "proposed")
        /\ nextPid = 2
        /\ replaced = {}

InitSpecExecute ==
    InitExecute /\ DetectIdle /\ ChunkerIdle /\ IndexerIdle /\ TemplatesIdle /\ QueryIdle

NextExecute ==
    \/ \E e \in ExecCalls : Approve(e) /\ OnlyAgent
    \/ \E e \in ExecCalls, a \in {"Yes", "No", "Delete", "Cancel"} :
           ExecAnswer(e, a) /\ OnlyAgent
    \/ \E e \in ExecCalls, opened \in BOOLEAN : ExecOpened(e, opened) /\ OnlyAgent
    \/ \E e \in ExecCalls : ExecSettled(e) /\ OnlyAgent
    \/ Reject /\ OnlyAgent

\* the execution of a pending proposal of several actions
SpecExecute == InitSpecExecute /\ [][NextExecute]_vars

InitSpecDetect == InitDetect /\ ChunkerIdle /\ IndexerIdle /\ TemplatesIdle /\ QueryIdle

OnlyDetect == UNCHANGED <<chunkerVars, indexerVars, templateVars, queryVars>>

NextDetect ==
    \/ \E p \in InferencePrompts : Detect(p) /\ OnlyDetect
    \/ \E h \in FolderHints : Resolve(h) /\ OnlyDetect

\* action detection and folder resolution applied to texts and hints
SpecDetect == InitSpecDetect /\ [][NextDetect]_vars

InitSpecChunker == AgentIdle /\ DetectIdle /\ InitChunker /\ IndexerIdle /\ TemplatesIdle /\ QueryIdle

NextChunker == ParseFile /\ UNCHANGED <<agentVars, detectVars, indexerVars, templateVars, queryVars>>

\* the chunker applied to file contents
SpecChunker == InitSpecChunker /\ [][NextChunker]_vars

InitSpecIndexer == AgentIdle /\ DetectIdle /\ ChunkerIdle /\ InitIndexer /\ TemplatesIdle /\ QueryIdle

OnlyIndexer == UNCHANGED <<agentVars, detectVars, chunkerVars, templateVars, queryVars>>

NextIndexer ==
    \/ \E r \in RebuildCalls, listed \in BOOLEAN :
           IndexRepositoryFast(r, listed) /\ OnlyIndexer
    \/ \E r \in RebuildCalls, t \in 1..MaxClock : RebuildResume(r, t) /\ OnlyIndexer
    \/ \E r \in RebuildCalls : RebuildReturn(r) /\ OnlyIndexer
    \/ \E r \in RebuildCalls : RebuildThrow(r) /\ OnlyIndexer
    \/ \E b \in BackfillCalls, choice \in Declined : BackfillAnswer(b, choice) /\ OnlyIndexer
    \/ \E u \in OneAtATime, f \in {F_a, F_b} :
           UpdateFile(u, AbsolutePath(f)) /\ OnlyIndexer
    \/ \E u \in OneAtATime : UpdateResume(u) /\ OnlyIndexer
    \/ \E u \in OneAtATime : UpdateSaved(u) /\ OnlyIndexer
    \/ LoadIndex /\ OnlyIndexer
    \/ Restart /\ OnlyIndexer
    \/ \E f \in {F_a, F_b} : \E state \in FileStates[f] : EditFile(f, state) /\ OnlyIndexer
    \/ \E document \in {NoDocument, DamagedDocument} :
           DocumentChanged(document) /\ OnlyIndexer

\* the indexer in a workspace where a.ts changes, one file is reported at a time
\* and the user declines embeddings
SpecIndexer == InitSpecIndexer /\ [][NextIndexer]_vars

NextRebuilds ==
    \/ \E r \in RebuildCalls, listed \in BOOLEAN :
           IndexRepositoryFast(r, listed) /\ OnlyIndexer
    \/ \E r \in RebuildCalls, t \in 1..MaxClock : RebuildResume(r, t) /\ OnlyIndexer
    \/ \E r \in RebuildCalls : RebuildReturn(r) /\ OnlyIndexer
    \/ \E r \in RebuildCalls : RebuildThrow(r) /\ OnlyIndexer
    \/ \E b \in BackfillCalls, choice \in Declined : BackfillAnswer(b, choice) /\ OnlyIndexer
    \/ \E f \in {F_a, F_b} : \E state \in FileStates[f] : EditFile(f, state) /\ OnlyIndexer

\* a rebuild that waits on parseFile
Parsing == \E r \in RebuildCalls : rebuilds[r].pc = "parsing"

\* the await of a rebuild on parseFile ends
ParseSettles ==
    \E r \in RebuildCalls, t \in 1..MaxClock : RebuildResume(r, t) /\ OnlyIndexer

\* the await of a rebuild on saveIndex ends, or its catch and finally run
RebuildEnds ==
    \E r \in RebuildCalls :
        \/ RebuildReturn(r) /\ OnlyIndexer
        \/ RebuildThrow(r) /\ OnlyIndexer

\* the awaits of a rebuild are on readFileSync and writeFileSync wrapped in async
\* functions, which always settle: a rebuild in progress takes its next step.
\* ParseSettles is enabled exactly when a rebuild is parsing, and its weak
\* fairness is written with that condition in the place of ENABLED
RebuildsGoOn ==
    /\ WF_vars(RebuildEnds)
    /\ []<>(~Parsing) \/ []<><<ParseSettles>>_vars

\* rebuilds requested at any time in a workspace whose files change, each rebuild
\* going on until it ends
SpecRebuilds == InitSpecIndexer /\ [][NextRebuilds]_vars /\ RebuildsGoOn

NextEmbeddings ==
    \/ \E r \in RebuildCalls, listed \in BOOLEAN :
           IndexRepositoryFast(r, listed) /\ OnlyIndexer
    \/ \E r \in RebuildCalls, t \in 1..MaxClock : RebuildResume(r, t) /\ OnlyIndexer
    \/ \E r \in RebuildCalls : RebuildReturn(r) /\ OnlyIndexer
    \/ \E r \in RebuildCalls : RebuildThrow(r) /\ OnlyIndexer
    \/ \E b \in BackfillCalls, choice \in Answers : BackfillAnswer(b, choice) /\ OnlyIndexer
    \/ \E b \in BackfillCalls, ok \in BOOLEAN : BackfillEmbedded(b, ok) /\ OnlyIndexer
    \/ \E b \in BackfillCalls : BackfillReturn(b) /\ OnlyIndexer
    \/ \E u \in OneAtATime, f \in {F_a, F_b} :
           UpdateFile(u, AbsolutePath(f)) /\ OnlyIndexer
    \/ \E u \in OneAtATime : UpdateResume(u) /\ OnlyIndexer
    \/ \E u \in OneAtATime : UpdateSaved(u) /\ OnlyIndexer
    \/ \E u \in OneAtATime, ok \in BOOLEAN : UpdateEmbedded(u, ok) /\ OnlyIndexer
    \/ \E u \in OneAtATime : UpdateReturn(u) /\ OnlyIndexer
    \/ LoadIndex /\ OnlyIndexer
    \/ \E f \in {F_a, F_b} : \E state \in FileStates[f] : EditFile(f, state) /\ OnlyIndexer

\* one session of the indexer with a user who may ask for embeddings
SpecEmbeddings == InitSpecIndexer /\ [][NextEmbeddings]_vars

NextBackfill ==
    \/ \E r \in RebuildCalls : IndexRepositoryFast(r, TRUE) /\ OnlyIndexer
    \/ \E r \in RebuildCalls : RebuildResume(r, 1) /\ OnlyIndexer
    \/ \E r \in RebuildCalls : RebuildReturn(r) /\ OnlyIndexer
    \/ \E b \in BackfillCalls, choice \in Answers : BackfillAnswer(b, choice) /\ OnlyIndexer
    \/ \E b \in BackfillCalls, ok \in BOOLEAN : BackfillEmbedded(b, ok) /\ OnlyIndexer
    \/ \E b \in BackfillCalls : BackfillReturn(b) /\ OnlyIndexer
    \/ LoadIndex /\ OnlyIndexer
    \/ \E u \in OneAtATime : UpdateFile(u, AbsolutePath(F_a)) /\ OnlyIndexer
    \/ \E u \in OneAtATime : UpdateResume(u) /\ OnlyIndexer
    \/ \E u \in OneAtATime : UpdateSaved(u) /\ OnlyIndexer
    \/ \E u \in OneAtATime, ok \in BOOLEAN : UpdateEmbedded(u, ok) /\ OnlyIndexer
    \/ \E u \in OneAtATime : UpdateReturn(u) /\ OnlyIndexer

\* the indexer with a user who may ask for embeddings and a provider that may
\* fail, in a workspace whose files stay as they are
SpecBackfill == InitSpecIndexer /\ [][NextBackfill]_vars

NextPatches ==
    \/ \E r \in RebuildCalls : IndexRepositoryFast(r, TRUE) /\ OnlyIndexer
    \/ \E r \in RebuildCalls : RebuildResume(r, 1) /\ OnlyIndexer
    \/ \E r \in RebuildCalls : RebuildReturn(r) /\ OnlyIndexer
    \/ \E b \in BackfillCalls, choice \in Declined : BackfillAnswer(b, choice) /\ OnlyIndexer
    \/ \E u \in UpdateCalls, f \in {F_a, F_b} :
           UpdateFile(u, AbsolutePath(f)) /\ OnlyIndexer
    \/ \E u \in UpdateCalls : UpdateResume(u) /\ OnlyIndexer
    \/ \E u \in UpdateCalls : UpdateSaved(u) /\ OnlyIndexer
    \/ LoadIndex /\ OnlyIndexer
    \/ \E state \in {FileMissing, FileWith(TextClass)} : EditFile(F_a, state) /\ OnlyIndexer

\* one session of the indexer in which files are reported while earlier reports
\* are still handled
SpecPatches == InitSpecIndexer /\ [][NextPatches]_vars

InitSpecWatched == AgentIdle /\ DetectIdle /\ ChunkerIdle /\ InitWatched /\ TemplatesIdle /\ QueryIdle

\* the callback of setupFileWatcher on a report of the watcher; its pattern
\* **/*.{ts,js,...} matches the sources and the build output alike
NextWatched ==
    \/ \E r \in OneAtATime : IndexRepositoryFast(r, TRUE) /\ OnlyIndexer
    \/ \E r \in OneAtATime : RebuildResume(r, 1) /\ OnlyIndexer
    \/ \E r \in OneAtATime : RebuildReturn(r) /\ OnlyIndexer
    \/ \E b \in BackfillCalls, choice \in Declined : BackfillAnswer(b, choice) /\ OnlyIndexer
    \/ LoadIndex /\ OnlyIndexer
    \/ \E u \in OneAtATime, f \in {F_a, F_dist} :
           UpdateFile(u, AbsolutePath(f)) /\ OnlyIndexer
    \/ \E u \in OneAtATime : UpdateResume(u) /\ OnlyIndexer
    \/ \E u \in OneAtATime : UpdateSaved(u) /\ OnlyIndexer
    \/ \E state \in {FileMissing, FileWith(TextClass)} : EditFile(F_a, state) /\ OnlyIndexer

\* one session of the indexer in a workspace with build output
SpecWatched == InitSpecWatched /\ [][NextWatched]_vars

NextPatchPair ==
    \/ \E r \in OneAtATime : IndexRepositoryFast(r, TRUE) /\ OnlyIndexer
    \/ \E r \in OneAtATime : RebuildResume(r, 1) /\ OnlyIndexer
    \/ \E r \in OneAtATime : RebuildReturn(r) /\ OnlyIndexer
    \/ \E b \in BackfillCalls, choice \in Declined : BackfillAnswer(b, choice) /\ OnlyIndexer
    \/ \E u \in UpdateCalls : UpdateFile(u, AbsolutePath(F_a)) /\ OnlyIndexer
    \/ \E u \in UpdateCalls : UpdateResume(u) /\ OnlyIndexer
    \/ \E u \in UpdateCalls : UpdateSaved(u) /\ OnlyIndexer
    \/ LoadIndex /\ OnlyIndexer

\* the watcher reports one file twice (created and changed, or saved twice):
\* setupFileWatcher starts an updateFile per report and awaits none of them
\* before the next report is handled
SpecPatchPair == InitSpecIndexer /\ [][NextPatchPair]_vars

\* a workspace whose files stay as they are and that has no document yet, before
\* initialize() came to loadIndex or after it
InitQuery(workspaces, initialized) ==
    /\ srcFiles \in workspaces
    /\ now = 1
    /\ indexedRepo = NULL
    /\ isIndexing = FALSE
    /\ persisted = NoDocument
    /\ savedFrom = NULL
    /\ arrayHeldBy = {}
    /\ rebuilds = [r \in RebuildCalls |-> IdleCall]
    /\ updates = [u \in UpdateCalls |-> IdleCall]
    /\ backfills = [b \in BackfillCalls |-> IdleCall]
    /\ activation = IF initialized THEN "watching" ELSE "initializing"
    /\ lastStep = IF initialized THEN Step("loadIndex", "false", 0) ELSE NoStep

InitSpecQuery ==
    AgentIdle /\ DetectIdle /\ ChunkerIdle /\ InitQuery(QueryWorkspaces, FALSE) /\ TemplatesIdle
        /\ QueryIdle

OnlyQuery == UNCHANGED <<agentVars, detectVars, chunkerVars, templateVars>>

NextQuery ==
    \/ \E r \in OneAtATime : ~queried.asked /\ IndexRepositoryFast(r, TRUE) /\ OnlyIndexer
    \/ \E r \in OneAtATime : RebuildResume(r, 1) /\ OnlyIndexer
    \/ \E r \in OneAtATime : RebuildReturn(r) /\ OnlyIndexer
    \/ \E b \in BackfillCalls, choice \in Answers : BackfillAnswer(b, choice) /\ OnlyIndexer
    \/ \E b \in BackfillCalls : BackfillEmbedded(b, TRUE) /\ OnlyIndexer
    \/ \E b \in BackfillCalls : BackfillReturn(b) /\ OnlyIndexer
    \/ \E query \in Queries, topK \in TopKs :
           NoCallRuns /\ QueryRelevantCode(query, topK) /\ OnlyQuery

\* the index of a workspace is built, embedded if the user wants it, and queried
\* while no call of the indexer is in progress; the index is not rebuilt after
\* the first query
SpecQuery == InitSpecQuery /\ [][NextQuery]_vars

InitSpecKeywordQuery ==
    AgentIdle /\ DetectIdle /\ ChunkerIdle /\ InitQuery(KeywordWorkspaces, FALSE) /\ TemplatesIdle
        /\ QueryIdle

NextKeywordQuery ==
    \/ \E r \in OneAtATime : ~queried.asked /\ IndexRepositoryFast(r, TRUE) /\ OnlyIndexer
    \/ \E r \in OneAtATime : RebuildResume(r, 1) /\ OnlyIndexer
    \/ \E r \in OneAtATime : RebuildReturn(r) /\ OnlyIndexer
    \/ \E b \in BackfillCalls, choice \in Declined : BackfillAnswer(b, choice) /\ OnlyIndexer
    \/ \E query \in Queries, topK \in TopKs :
           NoCallRuns /\ QueryRelevantCode(query, topK) /\ OnlyQuery

\* the index of a workspace is built and queried, the user declines embeddings
SpecKeywordQuery == InitSpecKeywordQuery /\ [][NextKeywordQuery]_vars

InitSpecQueryPatch ==
    AgentIdle /\ DetectIdle /\ ChunkerIdle /\ InitQuery(PatchedWorkspaces, TRUE) /\ TemplatesIdle
        /\ QueryIdle

NextQueryPatch ==
    \/ \E r \in OneAtATime : IndexRepositoryFast(r, TRUE) /\ OnlyIndexer
    \/ \E r \in OneAtATime : RebuildResume(r, 1) /\ OnlyIndexer
    \/ \E r \in OneAtATime : RebuildReturn(r) /\ OnlyIndexer
    \/ \E b \in BackfillCalls, choice \in Answers : BackfillAnswer(b, choice) /\ OnlyIndexer
    \/ \E b \in BackfillCalls : BackfillEmbedded(b, TRUE) /\ OnlyIndexer
    \/ \E b \in BackfillCalls : BackfillReturn(b) /\ OnlyIndexer
    \/ \E u \in OneAtATime : UpdateFile(u, AbsolutePath(F_a)) /\ OnlyIndexer
    \/ \E u \in OneAtATime : UpdateResume(u) /\ OnlyIndexer
    \/ \E u \in OneAtATime : UpdateSaved(u) /\ OnlyIndexer
    \/ \E u \in OneAtATime : UpdateEmbedded(u, TRUE) /\ OnlyIndexer
    \/ \E u \in OneAtATime : UpdateReturn(u) /\ OnlyIndexer
    \/ \E query \in PatchQueries : QueryRelevantCode(query, 3) /\ OnlyQuery

\* after initialize() the index of a workspace is built, embedded if the user
\* wants it, patched when a.ts is reported, and queried
SpecQueryPatch == InitSpecQueryPatch /\ [][NextQueryPatch]_vars

\* an index document that was not written by this build of the extension: the
\* chunks of b.ts with vectors of another length
ForeignDocument ==
    LET chunks == parseFile(F_b, TextClass)
    IN  Document(Stringify(
            [chunks |-> [k \in 1..Len(chunks) |->
                            ChunkObject(SetProp(chunks[k], "embedding", LongerVector), {})],
             lastIndexed |-> DateValue(1),
             workspaceRoot |-> Root,
             hasEmbeddings |-> TRUE]))

\* the prompts that are enriched
EnrichedPrompts == {Q_login_session, Q_create_in_ts}

\* the workspaces in which prompts are enriched
EnrichWorkspaces ==
    {Workspace(FileMissing, FileWith(TextClass)),
     Workspace(FileWith(TextFunctionPlain), FileWith(TextClass))}

InitSpecEnrich ==
    AgentIdle /\ DetectIdle /\ ChunkerIdle /\ InitQuery(EnrichWorkspaces, FALSE) /\ TemplatesIdle
        /\ QueryIdle

NextEnrich ==
    \/ \E r \in OneAtATime : ~queried.asked /\ IndexRepositoryFast(r, TRUE) /\ OnlyIndexer
    \/ \E r \in OneAtATime : RebuildResume(r, 1) /\ OnlyIndexer
    \/ \E r \in OneAtATime : RebuildReturn(r) /\ OnlyIndexer
    \/ \E b \in BackfillCalls, choice \in Answers : BackfillAnswer(b, choice) /\ OnlyIndexer
    \/ \E b \in BackfillCalls : BackfillEmbedded(b, TRUE) /\ OnlyIndexer
    \/ \E b \in BackfillCalls : BackfillReturn(b) /\ OnlyIndexer
    \/ activation = "initializing" /\ DocumentChanged(ForeignDocument) /\ OnlyIndexer
    \/ LoadIndex /\ OnlyIndexer
    \/ \E query \in EnrichedPrompts :
           NoCallRuns /\ QueryRelevantCode(query, ContextChunks) /\ OnlyQuery
    \/ \E userPrompt \in EnrichedPrompts : NoCallRuns /\ EnrichPrompt(userPrompt) /\ OnlyQuery

\* the index is built and embedded here, or loaded from the document that lies
\* in the storage of the extension, and then queried directly and through enrichPrompt
SpecEnrich == InitSpecEnrich /\ [][NextEnrich]_vars

InitSpecTemplates == AgentIdle /\ DetectIdle /\ ChunkerIdle /\ IndexerIdle /\ TemplatesIdle /\ QueryIdle

OnlyTemplates == UNCHANGED <<agentVars, detectVars, chunkerVars, indexerVars, queryVars>>

NextTemplates ==
    \/ \E files \in TemplateDirs : LoadTemplates(files) /\ OnlyTemplates
    \/ \E prompt \in TemplatePrompts : SelectAndExplain(prompt) /\ OnlyTemplates

\* the template manager: the catalog is loaded, templates are selected for texts
SpecTemplates == InitSpecTemplates /\ [][NextTemplates]_vars

(***************************************************************************)
(* Properties of the approval state machine                                *)
(***************************************************************************)
\* an executeAgentAction call goes from idle to working on a proposal
ExecStarts(e) == execs[e].pc = "idle" /\ execs'[e].pc # "idle"

\* C2: a rejection of the pending proposal leaves nothing pending (the engine is
\* Idle), creates, changes or deletes no file and no directory and starts no
\* execution; and an execution only ever starts on the proposal that is pending
\* at that moment, so a proposal that was rejected cannot be executed by a later
\* approval.
C2_RejectReturnsToIdle ==
    [][/\ reply'.kind = "rejected" =>
              /\ pendingAgentAction # NULL
              /\ pendingAgentAction' = NULL
              /\ fsFiles' = fsFiles
              /\ fsDirs' = fsDirs
              /\ execs' = execs
       /\ \A e \in ExecCalls :
              ExecStarts(e) => /\ pendingAgentAction # NULL
                               /\ execs'[e].pid = pendingAgentAction.pid]_vars

\* a proposal was staged and then rejected
C2_Witness == reply.kind = "rejected" /\ pendingAgentAction = NULL /\ nextPid > 1

\* C3: what is pending is one proposal or nothing; a proposal staged while another
\* is pending takes its place, and a proposal that was replaced is never pending
\* again, so that no later approval starts it and no later rejection rejects it.
C3_OnePendingNewReplacesOld ==
    /\ [](pendingAgentAction # NULL =>
              /\ DOMAIN pendingAgentAction = {"actions", "content", "pid"}
              /\ pendingAgentAction.pid \notin replaced)
    /\ [][/\ reply'.kind = "proposed" =>
                 /\ pendingAgentAction' # NULL
                 /\ pendingAgentAction # NULL =>
                        /\ pendingAgentAction'.pid # pendingAgentAction.pid
                        /\ pendingAgentAction.pid \in replaced'
          /\ \A e \in ExecCalls : ExecStarts(e) => execs'[e].pid \notin replaced
          /\ reply'.kind = "rejected" => pendingAgentAction.pid \notin replaced]_vars

\* a second proposal was staged while the first one was pending
C3_Witness == replaced # {} /\ pendingAgentAction # NULL /\ reply.kind = "proposed"

\* C4: when executeAgentAction returns after running the actions of a proposal,
\* nothing is pending, whether the actions succeeded or failed.
C4_ExecutedReturnsToIdle == reply.kind = "executed" => pendingAgentAction = NULL

\* an execution ended in which an action failed
C4_Witness ==
    /\ reply.kind = "executed"
    /\ \E k \in 1..Len(reply.results) : ~reply.results[k]
    /\ pendingAgentAction = NULL

\* call e works on proposal pid
Executes(e, pid) == execs[e].pc # "idle" /\ execs[e].pid = pid

\* C25: the actions of a proposal are executed at most once: no call of
\* executeAgentAction starts on a proposal that another call is still executing,
\* and a rejection is answered as a rejection only when no call is executing the
\* proposal it rejects.
C25_ActionsExecutedAtMostOnce ==
    [][/\ \A e \in ExecCalls :
              ExecStarts(e) => \A d \in ExecCalls \ {e} : ~Executes(d, execs'[e].pid)
       /\ reply'.kind = "rejected" =>
              \A e \in ExecCalls : ~Executes(e, pendingAgentAction.pid)]_vars

\* an approval that came after the execution had returned found nothing pending
C25_Witness ==
    /\ reply.op = "execute"
    /\ reply.kind = "no_pending"
    /\ nextPid > 1
    /\ \A e \in ExecCalls : execs[e].pc = "idle"

\* call e of executeAgentAction returns in this step
ExecReturns(e) == execs[e].pc # "idle" /\ execs'[e].pc = "idle" /\ reply'.kind = "executed"

\* C26: when an execution returns while a proposal other than the one it executed
\* is pending, that proposal stays pending.
C26_OnlyExecutedProposalCleared ==
    [][\A e \in ExecCalls :
           (/\ ExecReturns(e)
            /\ pendingAgentAction # NULL
            /\ pendingAgentAction.pid # execs[e].pid)
               => pendingAgentAction' = pendingAgentAction]_vars

\* a new proposal is pending while a call still executes an earlier one
C26_Witness ==
    \E e \in ExecCalls :
        /\ execs[e].pc # "idle"
        /\ pendingAgentAction # NULL
        /\ pendingAgentAction.pid # execs[e].pid

\* the step changes neither what is pending, nor the executions, nor the workspace
LeavesSessionAlone ==
    /\ pendingAgentAction' = pendingAgentAction
    /\ execs' = execs
    /\ fsFiles' = fsFiles
    /\ fsDirs' = fsDirs

\* C28: a message that stages nothing (sent in chat mode, or with no action
\* detected) leaves the pending proposal as it is and starts no execution; an
\* approval or a rejection that finds nothing pending leaves nothing pending and
\* changes no file and no directory.
C28_ChatLeavesPendingAlone ==
    [][/\ reply'.kind = "chat" => LeavesSessionAlone
       /\ reply'.kind = "no_pending" =>
              /\ pendingAgentAction = NULL
              /\ LeavesSessionAlone]_vars

\* a message that staged nothing was answered while a proposal was pending
C28_Witness == reply.kind = "chat" /\ pendingAgentAction # NULL

\* the answers of the overwrite prompt other than Yes: the button No, and the
\* answers that stand for a prompt closed without a choice
NotAffirmative == {"No", "Delete", "Cancel"}

\* the file the action in progress of call e is about
TargetOf(e) == FsPath(execs[e].actions[execs[e].idx].filePath)

\* call e waits on the overwrite prompt of a create action
AtOverwritePrompt(e) ==
    /\ execs[e].pc = "confirm_overwrite"
    /\ execs[e].actions[execs[e].idx].type = "create_file"

\* the results of call e after a step: those it collected, or those it returned
ResultsAfter(e) == IF execs'[e].pc = "idle" THEN reply'.results ELSE execs'[e].results

\* C17: a create action whose target exists changes the content of the file only
\* when the overwrite prompt is answered Yes. With any other answer, or none, the
\* step leaves every file as it is and the action ends as a failure, and that
\* failure is the entry of the action in the results.
C17_OverwriteOnlyWhenConfirmed ==
    [][/\ \A e \in ExecCalls, answer \in NotAffirmative :
              AtOverwritePrompt(e) /\ ExecAnswer(e, answer)
                  => /\ fsFiles' = fsFiles
                     /\ execs'[e].pc = "settled"
                     /\ ~execs'[e].ok
       /\ \A e \in ExecCalls :
              execs[e].pc = "settled" /\ ExecSettled(e)
                  => /\ Len(ResultsAfter(e)) = execs[e].idx
                     /\ ResultsAfter(e)[execs[e].idx] = execs[e].ok
       /\ \A p \in DOMAIN fsFiles :
              p \in DOMAIN fsFiles' /\ fsFiles'[p] # fsFiles[p]
                  => \E e \in ExecCalls :
                         AtOverwritePrompt(e) /\ TargetOf(e) = p /\ ExecAnswer(e, "Yes")]_vars

\* the overwrite prompt of a create action was answered otherwise than by Yes:
\* the action ended as a failure and its target still holds what it held
C17_Witness ==
    \E e \in ExecCalls :
        /\ execs[e].pc = "settled"
        /\ ~execs[e].ok
        /\ execs[e].actions[execs[e].idx].type = "create_file"
        /\ TargetOf(e) \in DOMAIN fsFiles
        /\ fsFiles[TargetOf(e)] = OriginalContent

\* longer begins with shorter and holds one entry more
OneMoreEntry(shorter, longer) ==
    /\ Len(longer) = Len(shorter) + 1
    /\ SubSeq(longer, 1, Len(shorter)) = shorter

\* C18: an execution attempts the actions of its proposal one after the other,
\* from the first to the last, and every action adds one entry of its own to the
\* results, whether it succeeded, failed or threw; the execution returns only
\* after the last action, with one entry per action.
C18_EveryActionGetsItsEntry ==
    [][\A e \in ExecCalls :
           LET x == execs[e]
               y == execs'[e]
           IN  /\ x.pc = "idle" /\ y.pc # "idle"
                   => /\ y.actions = pendingAgentAction.actions
                      /\ y.idx = 1
                      /\ y.results = <<>>
               /\ x.pc # "idle" /\ y.pc # "idle"
                   => /\ y.actions = x.actions
                      /\ \/ y.idx = x.idx /\ y.results = x.results
                         \/ y.idx = x.idx + 1 /\ OneMoreEntry(x.results, y.results)
                      /\ Len(y.results) = y.idx - 1
                      /\ x.pc = "settled" /\ y.idx = x.idx + 1 => y.results[x.idx] = x.ok
               /\ x.pc # "idle" /\ y.pc = "idle"
                   => /\ x.idx = Len(x.actions)
                      /\ reply'.kind = "executed"
                      /\ OneMoreEntry(x.results, reply'.results)
                      /\ Len(reply'.results) = Len(x.actions)
                      /\ x.pc = "settled" => reply'.results[x.idx] = x.ok]_vars

\* an execution of several actions returned: its first action failed and its
\* last action succeeded
C18_Witness ==
    /\ reply.kind = "executed"
    /\ Len(reply.results) > 1
    /\ ~reply.results[1]
    /\ reply.results[Len(reply.results)]


(***************************************************************************)
(* Properties of action detection and folder resolution                    *)
(***************************************************************************)
\* C9: for the request "Create login.feature in src/test/features" and a catalog
\* that holds src/test/features, detection yields exactly one action, a create
\* whose path is src/test/features/login.feature.
C9_LoginFeatureInFeatures ==
    (/\ inferred.op = "detectActions"
     /\ inferred.input = PromptCreateLogin
     /\ SeqIncludes(allFolderPaths, P_src_test_features))
        => /\ Len(inferred.output) = 1
           /\ inferred.output[1].type = "create_file"
           /\ inferred.output[1].filePath = P_login_feature_in_features

\* the hint in normal form, and the catalog entries that hold every segment of it
EntriesWithAllSegments(paths, hint) ==
    {p \in Range(paths) :
        \A part \in Range(PathSegments(hint)) : Includes(ToLowerCase(p), part)}

EntriesWithHint(paths, hint) == {p \in Range(paths) : Includes(ToLowerCase(p), hint)}

\* what C10 says of the folder returned for a hint on a catalog
BestMatchInOrder(paths, folderHint, folder) ==
    LET hint == NormalizeHint(folderHint)
        all == EntriesWithAllSegments(paths, hint)
        whole == EntriesWithHint(paths, hint)
    IN  /\ hint \in Range(paths) => folder = hint
        /\ (hint \notin Range(paths) /\ all # {}) =>
               /\ folder \in all
               /\ \A p \in all : Len(p) <= Len(folder)
        /\ (hint \notin Range(paths) /\ all = {} /\ whole # {}) =>
               /\ folder \in whole
               /\ \A k \in 1..Len(paths) :
                      paths[k] \in whole => \E j \in 1..k : paths[j] = folder

\* C10: best-match folder resolution returns the normalized hint when the catalog
\* holds it; otherwise the longest of the entries that contain every segment of
\* the hint; and the first entry containing the whole hint only when there is no
\* such entry. On the catalog src/test/features, src/components the hint
\* test/features gives src/test/features.
C10_BestMatchStrategiesInOrder ==
    /\ inferred.op = "findBestMatchingFolder" =>
           BestMatchInOrder(allFolderPaths, inferred.input, inferred.output)
    /\ findBestMatchingFolder(<<P_src_test_features, P_src_components>>, H_test_features)
           = P_src_test_features

\* a hint that is not in the catalog was resolved to the longest of several
\* entries that contain its segments
C10_Witness ==
    /\ inferred.op = "findBestMatchingFolder"
    /\ NormalizeHint(inferred.input) \notin Range(allFolderPaths)
    /\ \E p, q \in EntriesWithAllSegments(allFolderPaths, NormalizeHint(inferred.input)) :
           Len(p) < Len(q) /\ inferred.output = q

\* no entry of the catalog is the hint, holds all its segments or holds it whole
NoEntryMatches(paths, folderHint) ==
    LET hint == NormalizeHint(folderHint)
    IN  /\ hint \notin Range(paths)
        /\ folderHint \notin Range(paths)
        /\ EntriesWithAllSegments(paths, hint) = {}
        /\ EntriesWithHint(paths, hint) = {}

\* C11: when no entry of the catalog matches the hint in any of the three ways,
\* best-match folder resolution returns the string it was given.
C11_UnmatchedHintReturnedRaw ==
    (/\ inferred.op = "findBestMatchingFolder"
     /\ NoEntryMatches(allFolderPaths, inferred.input))
        => inferred.output = inferred.input

\* a hint in lower case without a trailing slash that matches nothing came back
\* as it was given
C11_Witness ==
    /\ inferred.op = "findBestMatchingFolder"
    /\ NoEntryMatches(allFolderPaths, inferred.input)
    /\ inferred.input = H_lib_util
    /\ inferred.output = H_lib_util

\* the marker of an enriched prompt, in lower case
LocationMarker == <<"*","*","l","o","c","a","t","i","o","n",":","*","*">>

\* the text holds no location marker and no dot, which every file name that
\* detectActions looks for contains
NamesNoFile(prompt) ==
    /\ ~Includes(ToLowerCase(prompt), LocationMarker)
    /\ "." \notin Range(prompt)

\* C27: detectActions returns no action or one action; an action it returns is
\* of the kind create_file and has a target path that is not empty; a text with
\* neither a location marker nor a file name yields no action.
C27_AtMostOneCreateAction ==
    inferred.op = "detectActions"
        => /\ Len(inferred.output) <= 1
           /\ \A k \in 1..Len(inferred.output) :
                  /\ inferred.output[k].type = "create_file"
                  /\ Len(inferred.output[k].filePath) > 0
           /\ NamesNoFile(inferred.input) => inferred.output = <<>>

\* detectActions found a file name in a text without a location marker and
\* returned one action
C27_Witness ==
    /\ inferred.op = "detectActions"
    /\ ~Includes(ToLowerCase(inferred.input), LocationMarker)
    /\ Len(inferred.output) = 1


\* C30: whenever the flag isIndexing is set it is cleared later, whether the
\* rebuild that set it ends normally or throws; the flag is set only while a
\* rebuild is in progress, so a rebuild asked for when none is in progress is
\* not rejected.
C30_FlagEventuallyCleared ==
    /\ isIndexing ~> ~isIndexing
    /\ [](isIndexing => \E r \in RebuildCalls : rebuilds[r].pc # "idle")
    /\ [][\A r \in RebuildCalls :
              lastStep' = Step("indexRepositoryFast", "rejected", r)
                  => \E q \in RebuildCalls : rebuilds[q].pc # "idle"]_vars

\* a rebuild whose walk threw has ended: the flag is clear and no rebuild is in
\* progress
C30_Witness ==
    /\ lastStep.op = "indexRepositoryFast"
    /\ lastStep.at = "thrown"
    /\ ~isIndexing
    /\ \A r \in RebuildCalls : rebuilds[r].pc = "idle"

\* C21: a query or an enrichment in which cosine similarity meets a vector of
\* another length ends with the error of cosineSimilarity: the caller gets the
\* error, never an empty or partial result in its place.
C21_MismatchIsFatal ==
    (queried.asked /\ MismatchObserved(queried.repo, queried.query))
        => (~queried.ok /\ queried.error = SameLengthMessage)

\* queryRelevantCode called directly on such an index rejects with the error
C21_Witness ==
    /\ queried.asked
    /\ queried.by = "queryRelevantCode"
    /\ MismatchObserved(queried.repo, queried.query)
    /\ ~queried.ok
    /\ queried.error = SameLengthMessage

\* C23: after any sequence of rebuilds and file-change reports, the index holds
\* no chunk whose path lies under an ignored directory.
C23_NoChunkUnderIgnoredDirectory ==
    indexedRepo # NULL =>
        \A k \in 1..Len(indexedRepo.chunks) :
            ~shouldIgnoreFile(AbsolutePath(indexedRepo.chunks[k].filePath))

\* a rebuild has passed over dist/c.ts, and a report of that file has come to
\* updateFile
C23_Witness ==
    /\ indexedRepo # NULL
    /\ Len(indexedRepo.chunks) > 0
    /\ C23_NoChunkUnderIgnoredDirectory
    /\ \E u \in UpdateCalls :
           /\ updates[u].pc = "parsed"
           /\ updates[u].filePath = AbsolutePath(F_dist)

\* C22: after any sequence of full rebuilds and per-file patches, two patches
\* of one file that overlap included, no two chunks of the index have the same
\* id.
C22_ChunkIdsUnique ==
    indexedRepo # NULL =>
        \A j, k \in 1..Len(indexedRepo.chunks) :
            indexedRepo.chunks[j].id = indexedRepo.chunks[k].id => j = k

\* two patches of one file are between their filter and their push, on an index
\* that exists
C22_Witness ==
    /\ indexedRepo # NULL
    /\ \A u \in UpdateCalls : updates[u].pc = "parsed"
    /\ updates[1].filePath = updates[2].filePath

\* chunk => chunk.embedding !== undefined
CarriesVector(chunk) == Prop(chunk, "embedding") # Undefined

\* C24: when hasEmbeddings is true, every chunk of the index carries a vector.
C24_FlagMeansEveryChunkHasVector ==
    (indexedRepo # NULL /\ indexedRepo.hasEmbeddings)
        => \A k \in 1..Len(indexedRepo.chunks) : CarriesVector(indexedRepo.chunks[k])

\* the backfill of a build ended with every batch answered: the flag is set and
\* every chunk carries a vector
C24_Witness ==
    /\ indexedRepo # NULL
    /\ indexedRepo.hasEmbeddings
    /\ Len(indexedRepo.chunks) > 1
    /\ \A k \in 1..Len(indexedRepo.chunks) : CarriesVector(indexedRepo.chunks[k])

(***************************************************************************)
(* Properties of a rebuild in which a file cannot be read                  *)
(***************************************************************************)
\* what the file parsed last adds to the chunks of rebuild x: its chunks, or
\* nothing when it could not be read
Contribution(x) == IF x.i > 0 /\ x.result.ok THEN x.result.chunks ELSE <<>>

\* the chunks of the file at relativePath as it is now, as objects in memory
ChunksNow(relativePath) ==
    LET chunks == parseFile(relativePath, srcFiles[relativePath].text)
    IN  [k \in 1..Len(chunks) |-> ChunkObject(chunks[k], {})]

Selected == selection.how.by # "never"

\* the keywords getTemplateSelectionReason may cite
MappedKeywords == UNION {Range(keywordMap[r]) : r \in 1..Len(keywordMap)}

\* C12: the reason given for the template selected for a text agrees with how
\* it was selected: it cites a keyword only when a rule holding that keyword
\* selected the template, and it says semantic match only when the template
\* came from the similarity fallback.
C12_ReasonAgreesWithSelection ==
    (Selected /\ selection.how.template # NoTemplate) =>
        LET name == selection.how.template.name
        IN  /\ \A kw \in MappedKeywords :
                  selection.reason = KeywordReason(name, kw) =>
                      /\ selection.how.by = "keyword"
                      /\ kw \in Range(keywordRules[selection.how.rule].keywords)
            /\ selection.reason = SemanticReason(name) => selection.how.by = "similarity"

\* a template was selected by the keyword explain, and the reason cites it
C12_Witness ==
    /\ selection.how.by = "keyword"
    /\ selection.how.rule = 1
    /\ selection.reason = KeywordReason(selection.how.template.name, selection.how.keyword)

\* the rules with a keyword that occurs in the text, and those of them whose
\* template the catalog holds
MatchingRules(prompt) ==
    {r \in 1..Len(keywordRules) :
        \E kw \in Range(keywordRules[r].keywords) : Includes(ToLowerCase(prompt), kw)}

ApplicableRules(prompt) ==
    {r \in MatchingRules(prompt) :
        \E k \in 1..Len(templates) : templates[k].id = keywordRules[r].templateId}

FirstOf(S) == CHOOSE x \in S : \A y \in S : x <= y

\* one similarity is higher than another, both to the same text
SimilarityHigher(s, t) == s.dot * s.dot * t.bb > t.dot * t.dot * s.bb

\* the template is the first in catalog order among those of the highest
\* similarity to the text, of the templates that have a vector; none if no
\* template has one
HighestSimilarityFirst(prompt, template) ==
    LET scored == {k \in 1..Len(templates) : templates[k].id \in DOMAIN templateEmbeddings}
        score(k) == Similarity(RawEmbedding(prompt), templateEmbeddings[templates[k].id])
    IN  IF scored = {} THEN template = NoTemplate
        ELSE \E k \in scored :
                /\ template = templates[k]
                /\ \A j \in scored : ~SimilarityHigher(score(j), score(k))
                /\ \A j \in scored : j < k => SimilarityHigher(score(k), score(j))

\* the same text selected twice in a row gave the same template
SameInputSameTemplate ==
    (Selected /\ earlier.how.by # "never" /\ selection.input = earlier.input) =>
        selection.how.template.id = earlier.how.template.id

\* C13 as the specification states it: on a catalog that holds templates, the
\* template returned is that of the first rule, in the declared order, with a
\* keyword that occurs in the text; only without such a rule the fallback
\* decides, by highest similarity and catalog order; and the same text gives
\* the same template.
C13_FirstMatchingRuleWins ==
    (Selected /\ Len(templates) > 0) =>
        /\ MatchingRules(selection.input) # {} =>
               selection.how.template.id
                   = keywordRules[FirstOf(MatchingRules(selection.input))].templateId
        /\ MatchingRules(selection.input) = {} =>
               HighestSimilarityFirst(selection.input, selection.how.template)
        /\ SameInputSameTemplate

\* C13 amended: the template returned is that of the first rule, in the
\* declared order, that has a keyword occurring in the text and whose template
\* the catalog holds; only without such a rule the fallback decides: it returns
\* the first in catalog order of the templates of highest similarity among
\* those with a vector, and none when no template has one; and the same text
\* gives the same template.
C13_FirstApplicableRuleWins ==
    Selected =>
        /\ Len(templates) = 0 => selection.how.template = NoTemplate
        /\ (Len(templates) > 0 /\ ApplicableRules(selection.input) # {}) =>
               /\ selection.how.by = "keyword"
               /\ selection.how.rule = FirstOf(ApplicableRules(selection.input))
               /\ selection.how.template.id
                      = keywordRules[FirstOf(ApplicableRules(selection.input))].templateId
        /\ (Len(templates) > 0 /\ ApplicableRules(selection.input) = {}) =>
               /\ selection.how.by # "keyword"
               /\ HighestSimilarityFirst(selection.input, selection.how.template)
        /\ SameInputSameTemplate

\* a text without keyword was given twice and both times the fallback returned
\* the first of two templates of the same, highest similarity
C13_Witness ==
    /\ selection.how.by = "similarity"
    /\ earlier.input = selection.input
    /\ earlier.how.by = "similarity"
    /\ selection.how.template = T_outline_twin
    /\ \E j, k \in 1..Len(templates) :
          j < k /\ templates[j] = T_outline_twin /\ templates[k] = T_outline


(***************************************************************************)
(* Properties of queries                                                   *)
(***************************************************************************)
\* a query was made of an index that holds chunks
Indexed ==
    /\ queried.asked
    /\ queried.repo # NULL
    /\ Len(queried.repo.chunks) > 0

\* the query asks for the creation of a file and a chunk lies in the folder it
\* names
ShortcutApplies ==
    /\ isFileCreation(queried.query)
    /\ \E k \in DOMAIN queried.repo.chunks :
          InFolder(queried.repo.chunks[k], TargetFolder(queried.query))

\* the query was answered by the keyword strategy
ByKeywords == Indexed /\ ~queried.repo.hasEmbeddings /\ ~ShortcutApplies

\* the tokens of a query: its words of more than two characters, in lower case
QueryTokens(query) == SelectSeq(WordsOf(query), LAMBDA w : Len(w) > 2)

\* the number of query tokens that are members of a keyword set
TokenHits(query, keywords) ==
    Cardinality({k \in DOMAIN QueryTokens(query) : QueryTokens(query)[k] \in Range(keywords)})

\* where a chunk stands in the index that was queried
PlaceInIndex(chunk) ==
    CHOOSE k \in DOMAIN queried.repo.chunks : queried.repo.chunks[k] = chunk

Returned(chunk) == \E p \in DOMAIN queried.result : queried.result[p] = chunk

\* C14: with the keyword strategy a query returns at most K chunks of the index;
\* the score of a chunk is the number of query tokens that are members of its
\* keyword set; the chunks returned are in the order of non-increasing score,
\* those of equal score in the order of the index; a chunk with a hit is left
\* out only when K chunks of at least its score are returned; and adding to a
\* chunk's keywords a keyword equal to a query token never decreases its score.
C14_KeywordRanking ==
    ByKeywords =>
        LET chunks == queried.repo.chunks
            result == queried.result
            Hits(chunk) == TokenHits(queried.query, KeywordsOf(chunk))
        IN  /\ Len(result) <= queried.topK
            /\ \A p \in DOMAIN result : \E k \in DOMAIN chunks : chunks[k] = result[p]
            /\ \A k \in DOMAIN chunks :
                  calculateKeywordScore(QueryKeywords(queried.query), KeywordsOf(chunks[k]))
                      = Hits(chunks[k])
            /\ \A p, q \in DOMAIN result :
                  p < q => /\ Hits(result[p]) >= Hits(result[q])
                           /\ Hits(result[p]) = Hits(result[q])
                                  => PlaceInIndex(result[p]) < PlaceInIndex(result[q])
            /\ \A k \in DOMAIN chunks :
                  (Hits(chunks[k]) > 0 /\ ~Returned(chunks[k])) =>
                      /\ Len(result) = queried.topK
                      /\ \A p \in DOMAIN result : Hits(result[p]) >= Hits(chunks[k])
            /\ \A k \in DOMAIN chunks : \A t \in Range(QueryTokens(queried.query)) :
                  calculateKeywordScore(QueryKeywords(queried.query),
                                        Append(KeywordsOf(chunks[k]), t))
                      >= calculateKeywordScore(QueryKeywords(queried.query),
                                               KeywordsOf(chunks[k]))

\* three chunks were returned for "login session": the last chunk of the index
\* first, with two hits, then two chunks with one hit each in their order
C14_Witness ==
    /\ ByKeywords
    /\ queried.query = Q_login_session
    /\ Len(queried.result) = 3
    /\ queried.result[1] = queried.repo.chunks[3]
    /\ queried.result[2] = queried.repo.chunks[1]
    /\ queried.result[3] = queried.repo.chunks[2]
    /\ TokenHits(queried.query, KeywordsOf(queried.result[1])) = 2
    /\ TokenHits(queried.query, KeywordsOf(queried.result[2])) = 1
    /\ TokenHits(queried.query, KeywordsOf(queried.result[3])) = 1

LoginToken == <<"l","o","g","i","n">>

\* the content of the chunk names the token
ContainsToken(chunk, token) == token \in Range(WordsOf(chunk.content))

\* the chunk ranks at or above another one in the result of the query: it is
\* listed behind the other, or left out while the other is returned, only if
\* the two have the same number of hits; and left out only if K chunks are
\* returned
RanksAtOrAbove(chunk, other) ==
    LET result == queried.result
        Hits(c) == TokenHits(queried.query, KeywordsOf(c))
    IN  /\ \A p, q \in DOMAIN result :
              (p < q /\ result[p] = other /\ result[q] = chunk) => Hits(other) = Hits(chunk)
        /\ (Returned(other) /\ ~Returned(chunk)) =>
              /\ Hits(other) = Hits(chunk)
              /\ Len(result) = queried.topK

\* an index without embeddings built from the two files was asked "login
\* session", and a chunk of it is class Session without the token login
LoginSessionScenario ==
    /\ Indexed
    /\ ~queried.repo.hasEmbeddings
    /\ queried.query = Q_login_session
    /\ \E k \in DOMAIN queried.repo.chunks :
          /\ Prop(queried.repo.chunks[k], "name") = <<"S","e","s","s","i","o","n">>
          /\ ~ContainsToken(queried.repo.chunks[k], LoginToken)

\* C15 as the specification states it: every chunk that contains the token login
\* ranks at or above every chunk that lacks it, whichever file was traversed
\* first.
C15_LoginChunkRanksFirst ==
    LoginSessionScenario =>
        \A j, k \in DOMAIN queried.repo.chunks :
            (/\ ContainsToken(queried.repo.chunks[j], LoginToken)
             /\ ~ContainsToken(queried.repo.chunks[k], LoginToken))
                => RanksAtOrAbove(queried.repo.chunks[j], queried.repo.chunks[k])

\* C15 amended: every chunk that has the token login among the keywords kept of
\* it (the first 50 words of more than two characters of its content) ranks at
\* or above every chunk that lacks the token, whichever file was traversed
\* first.
C15_KeptLoginChunkRanksFirst ==
    LoginSessionScenario =>
        \A j, k \in DOMAIN queried.repo.chunks :
            (/\ LoginToken \in Range(KeywordsOf(queried.repo.chunks[j]))
             /\ ~ContainsToken(queried.repo.chunks[k], LoginToken))
                => RanksAtOrAbove(queried.repo.chunks[j], queried.repo.chunks[k])

\* the file with class Session was traversed first: its chunk and the chunk of
\* function login have one hit each and are returned in that order
C15_Witness ==
    /\ LoginSessionScenario
    /\ queried.topK = 3
    /\ Len(queried.repo.chunks) = 2
    /\ Prop(queried.repo.chunks[1], "name") = <<"S","e","s","s","i","o","n">>
    /\ Prop(queried.repo.chunks[2], "name") = LoginToken
    /\ queried.result = queried.repo.chunks

\* the chunks of the index whose path contains the folder the query names, in
\* the order of the index; the path and the folder are compared in lower case
ChunksInTargetFolder ==
    SelectSeq(queried.repo.chunks,
              LAMBDA chunk : Includes(ToLowerCase(chunk.filePath),
                                      ToLowerCase(TargetFolder(queried.query))))

\* what the strategy that the embeddings flag selects returns for the query
StrategyResult ==
    IF queried.repo.hasEmbeddings
    THEN queryWithEmbeddings(queried.repo.chunks, queried.query, queried.topK)
    ELSE queryWithKeywords(queried.repo.chunks, queried.query, queried.topK)

\* C16: when the query matches the file creation pattern and the path of a chunk
\* contains the folder taken from the query, the result is the first K of the
\* chunks with such a path in the order of the index, whatever the scores and
\* the embeddings flag are; in every other case the result is that of the
\* keyword or the vector strategy.
C16_ShortcutTakesPrecedence ==
    Indexed =>
        IF isFileCreation(queried.query) /\ Len(ChunksInTargetFolder) > 0
        THEN queried.result = Take(ChunksInTargetFolder, queried.topK)
        ELSE queried.result = StrategyResult

\* an index with embeddings was asked to add a feature to a: the chunks of a.ts
\* were returned, which is not what the vector strategy returns
C16_Witness ==
    /\ Indexed
    /\ queried.repo.hasEmbeddings
    /\ queried.query = Q_add_to_a
    /\ queried.topK = 3
    /\ Len(queried.result) > 0
    /\ \A p \in DOMAIN queried.result : queried.result[p].filePath = F_a
    /\ queried.result # StrategyResult

\* a chunk of the index has no vector
WithoutVector(chunk) == Prop(chunk, "embedding") = Undefined

\* C20: a query that runs while chunks of the index carry no vector treats them
\* as candidates by their keywords: such a chunk with a keyword hit is returned
\* unless K other chunks are.
C20_ChunksWithoutVectorAreCandidates ==
    Indexed =>
        \A k \in DOMAIN queried.repo.chunks :
            (/\ WithoutVector(queried.repo.chunks[k])
             /\ TokenHits(queried.query, KeywordsOf(queried.repo.chunks[k])) > 0)
                => \/ Returned(queried.repo.chunks[k])
                   \/ Len(queried.result) = queried.topK

\* the backfill is in progress, no chunk has a vector yet, and the query is
\* answered by keyword
C20_Witness ==
    /\ Indexed
    /\ \E b \in BackfillCalls : backfills[b].pc = "embedding"
    /\ ~queried.repo.hasEmbeddings
    /\ \A k \in DOMAIN queried.repo.chunks : WithoutVector(queried.repo.chunks[k])
    /\ Len(queried.result) = 1
    /\ TokenHits(queried.query, KeywordsOf(queried.result[1])) > 0

(***************************************************************************)
(* Properties of the chunker                                               *)
(***************************************************************************)
\* the number of lines of a text: one more than its line breaks
LineCount(text) == Cardinality({k \in 1..Len(text) : text[k] = "\n"}) + 1

\* C1: the chunks parseFile returns for a file cover it without gap or overlap:
\* the first starts at line 0, each ends at or after its start, each next one
\* starts on the line after the one before ended, and the last ends on the last
\* line of the file.
C1_ChunksContiguous ==
    parsed # NotParsed =>
        /\ Len(parsed) >= 1
        /\ parsed[1].startLine = 0
        /\ \A k \in 1..Len(parsed) : parsed[k].endLine >= parsed[k].startLine
        /\ \A k \in 1..(Len(parsed) - 1) : parsed[k].endLine + 1 = parsed[k + 1].startLine
        /\ parsed[Len(parsed)].endLine = LineCount(sourceText) - 1

\* a file was chunked in which a declaration closed a chunk and a chunk was cut
\* at 50 lines
C1_Witness ==
    /\ parsed # NotParsed
    /\ \E j, k \in 1..Len(parsed) :
           /\ j < k
           /\ parsed[k].type \in {"function", "class"}
           /\ \E m \in 1..Len(parsed) : parsed[m].endLine - parsed[m].startLine = 49

(***************************************************************************)
(* Properties of the indexer                                               *)
(***************************************************************************)
RebuildsRunning == {r \in RebuildCalls : rebuilds[r].pc # "idle"}

\* a call of indexRepositoryFast gets past the flag
RebuildStarts == \E r \in RebuildCalls : rebuilds[r].pc = "idle" /\ rebuilds'[r].pc # "idle"

RebuildWasRejected == lastStep.op = "indexRepositoryFast" /\ lastStep.at = "rejected"

\* C5: at most one rebuild runs at any time; while one runs no other call of
\* indexRepositoryFast gets past the flag; and a call that is rejected ends at
\* once with a notice (it neither throws nor stays in progress) and leaves the
\* index, the document, the flag and the running rebuild as they were
C5_SecondRebuildRejected ==
    /\ [](Cardinality(RebuildsRunning) <= 1)
    /\ [][RebuildStarts => RebuildsRunning = {} /\ ~isIndexing]_vars
    /\ [][RebuildWasRejected' =>
            /\ RebuildsRunning # {}
            /\ UNCHANGED <<indexedRepo, persisted, isIndexing, rebuilds>>]_vars

\* a rebuild was rejected while another one was about to replace an index
C5_Witness ==
    /\ RebuildWasRejected
    /\ indexedRepo # NULL
    /\ \E r \in RebuildCalls : rebuilds[r].pc = "parsing"

DocumentChunks == IF persisted.kind = "document" THEN persisted.json.chunks ELSE <<>>

MemoryChunks == IF indexedRepo = NULL THEN <<>> ELSE StringifyChunks(indexedRepo.chunks)

\* a rebuild or an update returned in the last step, nothing else is in progress
\* and nobody touched the document
ReturnedAlone ==
    /\ lastStep.op \in {"indexRepositoryFast", "updateFile"}
    /\ lastStep.at \in {"returned", "caught"}
    /\ NoCallRuns
    /\ indexedRepo # NULL
    /\ savedFrom # NULL

\* C6, as the specification states it: when a rebuild or an update of a file
\* returns, the chunks of the document are the chunks of the index in memory,
\* also when the file of the update was deleted
C6_PersistedEqualsMemoryAtReturn ==
    ReturnedAlone => persisted.kind = "document" /\ DocumentChunks = MemoryChunks

SameChunks(a, b) ==
    /\ Len(a) = Len(b)
    /\ \A k \in 1..Len(a) :
          /\ a[k].id = b[k].id
          /\ a[k].content = b[k].content
          /\ a[k].startLine = b[k].startLine
          /\ a[k].endLine = b[k].endLine

LoadStep == activation = "initializing" /\ activation' = "watching"

\* C7: loadIndex on a document that saveIndex wrote returns true and leaves in
\* memory the chunks that were in memory when the document was written (same
\* ids, contents and line ranges, in the same order) and the same instant of
\* the build as a Date; with no document, or one that cannot be parsed, it
\* returns false and leaves the index in memory as it was
C7_PersistThenLoad ==
    [][LoadStep =>
          IF persisted.kind = "document"
          THEN /\ lastStep' = Step("loadIndex", "true", 0)
               /\ savedFrom # NULL
               /\ SameChunks(indexedRepo'.chunks, savedFrom.chunks)
               /\ indexedRepo'.lastIndexed = savedFrom.lastIndexed
               /\ indexedRepo'.lastIndexed.kind = "Date"
          ELSE /\ lastStep' = Step("loadIndex", "false", 0)
               /\ indexedRepo' = indexedRepo]_vars

\* a document with chunks of two files, built at the second instant, was loaded
\* in a new session
C7_Witness ==
    /\ lastStep = Step("loadIndex", "true", 0)
    /\ Len(indexedRepo.chunks) >= 3
    /\ indexedRepo.lastIndexed = DateValue(2)
    /\ \E k \in 1..Len(indexedRepo.chunks) : indexedRepo.chunks[k].filePath = F_a
    /\ \E k \in 1..Len(indexedRepo.chunks) : indexedRepo.chunks[k].filePath = F_b

ChunksOfOthers(chunks, relativePath) ==
    SelectSeq(StringifyChunks(chunks), LAMBDA chunk : chunk.filePath # relativePath)

\* the step of updateFile that filters, and the step that pushes
FilterStep(u) == updates[u].pc = "idle" /\ updates'[u].pc = "parsed"

PushStep(u) == updates[u].pc = "parsed" /\ updates'[u].pc = "saved"

\* C8: updateFile on an index removes every chunk of the file and keeps the
\* chunks of the other files in their order; what it then adds are the chunks
\* parseFile produced of the file, after all the chunks that were there; neither
\* step changes the root or the instant of the build; and without an index the
\* call changes nothing and creates no index
C8_PatchFrame ==
    [][\A u \in UpdateCalls :
          /\ FilterStep(u) =>
                LET relativePath == RelativePath(Root, updates'[u].filePath)
                IN  /\ indexedRepo # NULL
                    /\ \A k \in 1..Len(indexedRepo'.chunks) :
                          indexedRepo'.chunks[k].filePath # relativePath
                    /\ StringifyChunks(indexedRepo'.chunks)
                          = ChunksOfOthers(indexedRepo.chunks, relativePath)
                    /\ indexedRepo'.workspaceRoot = indexedRepo.workspaceRoot
                    /\ indexedRepo'.lastIndexed = indexedRepo.lastIndexed
                    /\ srcFiles[relativePath].kind = "file" =>
                          StringifyChunks(updates'[u].result.chunks)
                             = StringifyChunks(parseFile(relativePath,
                                                         srcFiles[relativePath].text))
          /\ PushStep(u) =>
                LET relativePath == RelativePath(Root, updates[u].filePath)
                    fresh == updates[u].result.chunks
                IN  /\ StringifyChunks(indexedRepo'.chunks)
                          = StringifyChunks(indexedRepo.chunks) \o StringifyChunks(fresh)
                    /\ \A k \in 1..Len(fresh) : fresh[k].filePath = relativePath
                    /\ indexedRepo'.workspaceRoot = indexedRepo.workspaceRoot
                    /\ indexedRepo'.lastIndexed = indexedRepo.lastIndexed
          /\ lastStep' = Step("updateFile", "noindex", u) =>
                /\ indexedRepo = NULL
                /\ UNCHANGED <<indexedRepo, persisted, updates>>]_vars

\* an update of a.ts pushed its two chunks after the chunk of b.ts
C8_Witness ==
    /\ \E u \in UpdateCalls :
          updates[u].pc = "saved" /\ updates[u].filePath = AbsolutePath(F_a)
    /\ Len(indexedRepo.chunks) = 3
    /\ indexedRepo.chunks[1].filePath = F_b
    /\ indexedRepo.chunks[2].filePath = F_a
    /\ indexedRepo.chunks[3].filePath = F_a
    /\ indexedRepo.chunks[3].startLine = 1

\* the step of updateFile in which the error of parseFile is caught
CatchStep(u) ==
    /\ updates[u].pc = "parsed"
    /\ ~updates[u].result.ok
    /\ updates'[u].pc = "idle"
    /\ activation' = activation

\* C29: an update whose file cannot be read takes the chunks of that file out of
\* the index and keeps the chunks of the other files as they were; when the error
\* of parseFile is caught the call returns without an error, and the index stays
\* as it was: the chunks of the file are not put back and no other chunk changes.
C29_FailedPatchDropsFileOnly ==
    [][\A u \in UpdateCalls :
          /\ FilterStep(u) /\ ~updates'[u].result.ok =>
                LET relativePath == RelativePath(Root, updates'[u].filePath)
                IN  /\ srcFiles[relativePath].kind # "file"
                    /\ \A k \in 1..Len(indexedRepo'.chunks) :
                          indexedRepo'.chunks[k].filePath # relativePath
                    /\ StringifyChunks(indexedRepo'.chunks)
                          = ChunksOfOthers(indexedRepo.chunks, relativePath)
          /\ CatchStep(u) =>
                /\ lastStep' = Step("updateFile", "caught", u)
                /\ indexedRepo' = indexedRepo]_vars

\* an update of the deleted a.ts returned through its catch: the index holds the
\* chunk of b.ts and no chunk of a.ts
C29_Witness ==
    /\ lastStep.op = "updateFile"
    /\ lastStep.at = "caught"
    /\ srcFiles[F_a].kind = "missing"
    /\ indexedRepo # NULL
    /\ Len(indexedRepo.chunks) > 0
    /\ \A k \in 1..Len(indexedRepo.chunks) : indexedRepo.chunks[k].filePath = F_b
    /\ persisted.kind = "document"
    /\ \E k \in 1..Len(persisted.json.chunks) : persisted.json.chunks[k].filePath = F_a

=============================================================================
